---- MODULE Spec2Model ----
(***************************************************************************)
(* A model of pino-connector-core: the transport registry                  *)
(* (src/src/core/transport-registry/index.ts) and the connector that       *)
(* orchestrates it (src/src/core/connector.ts).                            *)
(*                                                                         *)
(* Every async function of the source is a task: a slot of `tasks` whose   *)
(* pc names the await it is suspended at.  One action runs one segment of  *)
(* code, from a call or from the resumption of an await up to the next     *)
(* await (or the return).  The outcome of an awaited sink, factory or      *)
(* backend call (it settles, or it throws / rejects) is chosen when the    *)
(* await resumes.                                                          *)
(***************************************************************************)
EXTENDS Integers, Sequences, FiniteSets, TLC

(* ------------------------------ bounds --------------------------------- *)

\* Task slots: the number of async calls that can be in flight together.
MaxTasks == 2

\* Lifecycles the transport factories create in one run.
MaxLifecycles == 3

\* Failure entries a run records before no further publish is called.
MaxRecordedFailures == 2

\* Shutdown invocations one lifecycle has received before no further
\* shutdown() is called.
MaxShutdowns == 2

\* Plugin registrations in the list a hook plan is built from.
MaxPlugins == 3

\* Rules in the serializer map of one run.
MaxRules == 2

\* Elements of the array a record carries in its metadata.
MaxTokens == 3

\* Awaits inside the callback of one runWithContext call.
MaxHops == 2

(* --------------------------- program values ---------------------------- *)

Tasks == 1..MaxTasks

TransportNames == {"a", "b"}

\* LogLevelName (src/src/core/connector.ts 829-836).
LogLevels == {"trace", "debug", "info", "warn", "error", "fatal", "silent"}

\* A registration's optional threshold: a level, or "none" for undefined.
Thresholds == LogLevels \cup {"none"}

VARIABLES
  transports,   \* the registry's Map, as its entries in insertion order
  failures,     \* the registry's failure history
  lcs,          \* every lifecycle a factory has returned; its id is its index
  tasks,        \* the async calls, by slot
  state,        \* the connector's currentState
  config,       \* the connector's currentConfig
  context,      \* the context manager's active (fallback) context
  loggers,      \* the logger handles the application holds
  lastResult    \* how the most recent connector / logger call returned

connVars == <<state, config, context, loggers, lastResult>>
vars == <<transports, failures, lcs, tasks, state, config, context, loggers, lastResult>>

(* ------------------------- the registry's Map -------------------------- *)

\* LEVEL_RANK
LEVEL_RANK(level) ==
  CASE level = "trace" -> 10
    [] level = "debug" -> 20
    [] level = "info" -> 30
    [] level = "warn" -> 40
    [] level = "error" -> 50
    [] level = "fatal" -> 60
    [] level = "silent" -> 70

\* shouldLog(threshold, level)
shouldLog(threshold, level) == LEVEL_RANK(level) >= LEVEL_RANK(threshold)

\* `transport.level && !shouldLog(transport.level, record.level)` is the
\* condition to skip; a registered transport is eligible otherwise.
Eligible(entry, level) ==
  ~(entry.level # "none" /\ ~shouldLog(entry.level, level))

\* The index of name's entry in the Map, 0 when it has none.
MapIndex(map, name) ==
  IF \E i \in 1..Len(map) : map[i].name = name
    THEN CHOOSE i \in 1..Len(map) : map[i].name = name
    ELSE 0

\* transports.get(name)?.lifecycle, as the lifecycle's id (0: undefined).
MapGet(map, name) ==
  IF MapIndex(map, name) = 0 THEN 0 ELSE map[MapIndex(map, name)].lc

\* transports.set(name, record): an existing key keeps its place.
MapSet(map, entry) ==
  IF MapIndex(map, entry.name) = 0
    THEN Append(map, entry)
    ELSE [map EXCEPT ![MapIndex(map, entry.name)] = entry]

MapDeleteNothing(map, name) == map

\* transports.delete(name)
MapDelete(map, name) ==
  LET i == MapIndex(map, name)
  IN IF i = 0 THEN map
     ELSE [k \in 1..(Len(map) - 1) |-> IF k < i THEN map[k] ELSE map[k + 1]]

(* ------------------------------- tasks --------------------------------- *)

NoCaps == [flush |-> FALSE, shutdown |-> FALSE]

\* A LogRecord, as far as the pipeline is concerned: its level and the
\* stages of the per-record pipeline it has passed through.
NoRecord == [level |-> "none", hooked |-> FALSE, redacted |-> FALSE]

IdleTask ==
  [op |-> "idle", pc |-> "done", status |-> "none", via |-> "none",
   name |-> "", level |-> "none", caps |-> NoCaps,
   lc |-> 0, existing |-> 0, cursor |-> 0,
   record |-> NoRecord, results |-> <<>>, invoked |-> <<>>, flushed |-> <<>>,
   sub |-> "na", bflush |-> "na", bclose |-> "na"]

\* A task still has code to run (its own, or a backend call it started).
Active(t) ==
  \/ tasks[t].pc # "done"
  \/ tasks[t].bflush = "pending"
  \/ tasks[t].bclose = "pending"

\* A new call takes the first slot that holds no running task.
FreeSlot(t) ==
  /\ ~Active(t)
  /\ \A u \in Tasks : u < t => Active(u)

Quiescent == \A t \in Tasks : ~Active(t)

\* The slots as a new call in slot t finds them: what earlier, settled calls
\* left in their slots is gone, and slot t holds the new call.
Started(t, task) ==
  [u \in Tasks |-> IF u = t THEN task
                   ELSE IF Active(u) THEN tasks[u] ELSE IdleTask]

\* Promise.all over the parts of a call (the registry's part and the
\* backend's flush and close): it rejects with the first part that fails
\* and resolves once every part has.
Join(task) ==
  IF task.status # "pending" THEN task.status
  ELSE IF "failed" \in {task.sub, task.bflush, task.bclose} THEN "rejected"
  ELSE IF "pending" \in {task.sub, task.bflush, task.bclose} THEN "pending"
  ELSE "resolved"

Joined(task) == [task EXCEPT !.status = Join(task)]

\* Map iterators are live: deleting an entry at or before an iterator's
\* position moves the position back by one, so that the iterator goes on
\* with the entry that followed.
AfterDelete(tk, i) ==
  [t \in Tasks |->
     IF tk[t].op \in {"publish", "flush", "shutdown"} /\ tk[t].pc # "done"
          /\ i # 0 /\ i <= tk[t].cursor
       THEN [tk[t] EXCEPT !.cursor = @ - 1]
       ELSE tk[t]]

\* transports.clear() leaves every live iterator with nothing before it.
AfterClear(tk) ==
  [t \in Tasks |->
     IF tk[t].op \in {"publish", "flush", "shutdown"} /\ tk[t].pc # "done"
       THEN [tk[t] EXCEPT !.cursor = 0]
       ELSE tk[t]]

\* lifecycle.shutdown() is invoked on lifecycle l.
InvokeShutdown(table, l) == [table EXCEPT ![l].shutdowns = @ + 1]

(* ------------------------------ Init ----------------------------------- *)

\* createConnector with no declared transports, no transport factories and
\* The connector's configuration after construction, and with it the names
\* that have a factory in options.transportFactories.  No declared
\* transports, no factories and useBuiltinTransports = false:
\* registerConfiguredTransports returns at once and the registry starts
\* empty.
DefaultConfig ==
  [level |-> "info", transports |-> <<>>, plugins |-> FALSE, serializers |-> FALSE,
   factories |-> {}]

Init ==
  /\ transports = <<>>
  /\ failures = <<>>
  /\ lcs = <<>>
  /\ tasks = [t \in Tasks |-> IdleTask]
  /\ state = "running"
  /\ config = DefaultConfig
  /\ context = "initial"
  /\ loggers = {}
  /\ lastResult = "none"

(* ------------------- the connector's continuations --------------------- *)

\* upsertTransport(existing, next), on the registrations' names.
upsertTransport(list, name) ==
  SelectSeq(list, LAMBDA n : n # name) \o <<name>>

\* What the connector runs when the registry call it awaits has settled as
\* `new`: registerTransport (207-213), registerConfiguredTransports (595)
\* and removeTransport (218-223) rewrite config.transports, shutdown (296)
\* marks the connector stopped.  A call made on the registry itself has no
\* continuation.
Continuation(new, wasResolved) ==
  LET resolves == /\ new.via \in {"connector", "configured"}
                  /\ ~wasResolved
                  /\ new.status = "resolved"
  IN /\ state' = IF resolves /\ new.op = "shutdown" THEN "stopped" ELSE state
     /\ config' =
          IF resolves /\ new.op = "register"
            THEN [config EXCEPT !.transports = upsertTransport(@, new.name)]
          ELSE IF resolves /\ new.op = "remove"
            THEN [config EXCEPT !.transports = SelectSeq(@, LAMBDA n : n # new.name)]
          ELSE config
     /\ UNCHANGED <<context, loggers>>

\* The continuation of the call in slot t, when one of its awaits resumes.
Continue(t, new) ==
  /\ Continuation(new, tasks[t].status = "resolved")
  /\ UNCHANGED lastResult

\* The lifecycles the factories of declared transports return can shut
\* down and cannot flush.
DeclaredCaps == [flush |-> FALSE, shutdown |-> TRUE]

\* registerConfiguredTransports (576-603) of a connector whose declared
\* registrations with a factory are `planned`, up to its first await: the
\* registrations without a factory are passed over, and registry.register
\* is called for the first of the others, which invokes its factory.
\* `rest` are the registrations still to come, `warned` the transports
\* named in the warnings logged so far, `passed` the names of the
\* `transports` list the caller was given.
ConfiguredRun(registrations, passed) ==
  [rest |-> Tail(registrations), warned |-> <<>>, passed |-> passed]
    @@ [IdleTask EXCEPT !.op = "register", !.pc = "reg_factory",
                        !.status = "pending", !.via = "configured",
                        !.name = Head(registrations), !.caps = DeclaredCaps]

\* The declared registrations that have a factory (589-592).
planned(cfg) == SelectSeq(cfg.transports, LAMBDA n : n \in cfg.factories)

\* How the call whose register has settled as `task` goes on.  The loop of
\* registerConfiguredTransports (588-602) logs a warning naming the
\* transport when register rejected and calls register for the next
\* registration; after the last one the function returns.  Any other call
\* is over.
Resume(task) ==
  IF task.via # "configured" THEN task
  ELSE LET warned == IF task.status = "rejected"
                       THEN Append(task.warned, task.name)
                       ELSE task.warned
       IN IF task.rest = <<>>
            THEN [task EXCEPT !.status = "resolved", !.warned = warned]
            ELSE [task EXCEPT !.pc = "reg_factory", !.status = "pending",
                              !.name = Head(task.rest), !.rest = Tail(task.rest),
                              !.lc = 0, !.existing = 0, !.warned = warned]

(* --------------------------- registry.register ------------------------- *)

\* normalizeTransportRegistration (142-155) throws for a registration
\* without a non-empty name or with an unknown level (normalizeTransports,
\* 522-535; a registration without config likewise).
registrationInvalid(n, lvl) == n = "" \/ lvl \notin Thresholds


\* register(registration, factory), lines 45-54: the registration is
\* normalized, which makes the call reject when it is invalid, and the
\* factory is invoked; the call awaits its lifecycle.
StartRegister(t, n, lvl, caps, via) ==
  /\ FreeSlot(t)
  /\ IF registrationInvalid(n, lvl)
       THEN tasks' = Started(t,
              [IdleTask EXCEPT !.op = "register", !.status = "rejected",
                               !.via = via, !.name = n, !.level = lvl,
                               !.caps = caps])
       ELSE /\ Len(lcs) + Cardinality({u \in Tasks : tasks[u].pc = "reg_factory"})
                 < MaxLifecycles
            /\ tasks' = Started(t,
                 [IdleTask EXCEPT !.op = "register", !.pc = "reg_factory",
                                  !.status = "pending", !.via = via,
                                  !.name = n, !.level = lvl, !.caps = caps])
  /\ UNCHANGED <<transports, failures, lcs>>

\* The entry a register call stores: line 55-60.
NewEntry(task, l) == [name |-> task.name, level |-> task.level, lc |-> l]

\* Line 63: the call awaits the previous entry's shutdown before the set.
AwaitsExisting(task, existing) ==
  existing # 0 /\ lcs[existing].caps.shutdown

\* register, lines 54-68 after the factory settled: the lifecycle exists;
\* the entry of the same name, if it can shut down, is shut down and
\* awaited; otherwise the new entry is stored at once.
RegisterFactoryDone(t) ==
  /\ tasks[t].pc = "reg_factory"
  /\ \/ \* the factory threw or rejected: register rejects
        LET new == [tasks[t] EXCEPT !.pc = "done", !.status = "rejected"]
        IN /\ tasks' = [tasks EXCEPT ![t] = Resume(new)]
           /\ UNCHANGED <<transports, failures, lcs>>
           /\ Continue(t, new)
     \/ LET l == Len(lcs) + 1
            created == Append(lcs, [name |-> tasks[t].name,
                                    caps |-> tasks[t].caps,
                                    shutdowns |-> 0,
                                    via |-> tasks[t].via])
            existing == MapGet(transports, tasks[t].name)
            waiting == [tasks[t] EXCEPT !.pc = "reg_shutdown", !.lc = l,
                                        !.existing = existing]
            stored == [tasks[t] EXCEPT !.pc = "done", !.status = "resolved",
                                       !.lc = l, !.existing = existing]
        IN IF AwaitsExisting(tasks[t], existing)
             THEN /\ lcs' = InvokeShutdown(created, existing)
                  /\ tasks' = [tasks EXCEPT ![t] = waiting]
                  /\ UNCHANGED <<transports, failures>>
                  /\ Continue(t, waiting)
             ELSE /\ lcs' = created
                  /\ transports' = MapSet(transports, NewEntry(tasks[t], l))
                  /\ tasks' = [tasks EXCEPT ![t] = Resume(stored)]
                  /\ UNCHANGED failures
                  /\ Continue(t, stored)

\* register, lines 64-68 after the previous entry's shutdown settled.
RegisterShutdownDone(t) ==
  /\ tasks[t].pc = "reg_shutdown"
  /\ \/ \* existing.lifecycle.shutdown() threw or rejected: register rejects
        LET new == [tasks[t] EXCEPT !.pc = "done", !.status = "rejected"]
        IN /\ tasks' = [tasks EXCEPT ![t] = Resume(new)]
           /\ UNCHANGED <<transports, failures, lcs>>
           /\ Continue(t, new)
     \/ LET new == [tasks[t] EXCEPT !.pc = "done", !.status = "resolved"]
        IN /\ transports' = MapSet(transports, NewEntry(tasks[t], tasks[t].lc))
           /\ tasks' = [tasks EXCEPT ![t] = Resume(new)]
           /\ UNCHANGED <<failures, lcs>>
           /\ Continue(t, new)

(* ---------------------------- registry.remove -------------------------- *)

\* remove(name), lines 70-78 up to the await: an absent name is a no-op;
\* otherwise the entry is deleted and its shutdown, if any, invoked.
StartRemove(t, n, via) ==
  /\ FreeSlot(t)
  /\ LET l == MapGet(transports, n)
         base == [IdleTask EXCEPT !.op = "remove", !.via = via, !.name = n,
                                  !.existing = l]
         new == IF l # 0 /\ lcs[l].caps.shutdown
                  THEN [base EXCEPT !.pc = "rem_shutdown", !.status = "pending"]
                  ELSE [base EXCEPT !.status = "resolved"]
     IN /\ transports' = MapDelete(transports, n)
        /\ tasks' = AfterDelete(Started(t, new), MapIndex(transports, n))
        /\ lcs' = IF new.pc = "rem_shutdown" THEN InvokeShutdown(lcs, l) ELSE lcs
        /\ UNCHANGED failures

\* remove, lines 76-78 after the removed entry's shutdown settled.
RemoveShutdownDone(t) ==
  /\ tasks[t].pc = "rem_shutdown"
  /\ \E outcome \in {"resolved", "rejected"} :
       LET new == [tasks[t] EXCEPT !.pc = "done", !.status = outcome]
       IN /\ tasks' = [tasks EXCEPT ![t] = new]
          /\ Continue(t, new)
  /\ UNCHANGED <<transports, failures, lcs>>

(* --------------------------- registry.publish -------------------------- *)

\* MAX_FAILURES
MAX_FAILURES == 50

trimNewest(store) ==
  IF Len(store) > MAX_FAILURES THEN SubSeq(store, 1, MAX_FAILURES) ELSE store

\* trimFailures(store)
trimFailures(store) ==
  IF Len(store) > MAX_FAILURES
    THEN SubSeq(store, Len(store) - MAX_FAILURES + 1, Len(store))
    ELSE store

\* The next entry of the live iterator that passes the threshold test of
\* lines 83-85, as its index (0: the iteration is over).
NextEligible(map, cursor, level) ==
  IF \E i \in (cursor + 1)..Len(map) : Eligible(map[i], level)
    THEN CHOOSE i \in (cursor + 1)..Len(map) :
           /\ Eligible(map[i], level)
           /\ \A j \in (cursor + 1)..(i - 1) : ~Eligible(map[j], level)
    ELSE 0

\* publish's for loop, lines 82-105, from the iterator's position to the
\* next await: filtered entries are passed over, the next eligible
\* transport's publish is invoked with the record and awaited; with no
\* entry left the results are returned.
PublishAdvance(task, map) ==
  LET i == NextEligible(map, task.cursor, task.record.level)
  IN IF i = 0
       THEN [task EXCEPT !.pc = "done", !.status = "resolved",
                         !.cursor = Len(map)]
       ELSE [task EXCEPT !.pc = "pub_await", !.cursor = i,
                         !.lc = map[i].lc, !.name = map[i].name,
                         !.invoked = Append(@, map[i].name)]

\* publish(record), lines 80-88: the call runs up to its first await.
BeginPublish(t, rec, via) ==
  /\ FreeSlot(t)
  /\ tasks' = Started(t,
       PublishAdvance([IdleTask EXCEPT !.op = "publish", !.status = "pending",
                                       !.via = via, !.record = rec],
                      transports))
  /\ UNCHANGED <<transports, failures, lcs>>

\* publish(record), called while the history is below the bound of the run.
StartPublish(t, rec, via) ==
  /\ Len(failures) < MaxRecordedFailures
  /\ BeginPublish(t, rec, via)

\* What becomes of publish when the recovery flush of line 100 settles:
\* nothing catches a flush that throws, and the async function rejects.
PublishAfterFlush(outcome) ==
  IF outcome = "ok" THEN "pending" ELSE "rejected"

RejectionUnhandled(task) ==
  [task EXCEPT !.pc = "done", !.status = "rejected"]

\* A fan-out rejects.  The one a log call started has dispatch's `.catch`
\* (connector.ts 440-442) on it: the backend logs a warning and nothing
\* reaches the application.
SettleRejected(task) ==
  [task EXCEPT !.pc = "done",
               !.status = IF task.via = "log" THEN "caught" ELSE "rejected"]

HasFlushNever(l) == FALSE

\* Line 99: `transport.lifecycle.flush` is defined.
HasFlush(l) == lcs[l].caps.flush

\* publish, lines 88-102, when the awaited lifecycle.publish settled.
PublishSettled(t) ==
  /\ tasks[t].pc = "pub_await"
  /\ \/ \* line 89: success
        LET new == PublishAdvance(
                     [tasks[t] EXCEPT !.results =
                        Append(@, [transportName |-> tasks[t].name,
                                   succeeded |-> TRUE, error |-> "none"])],
                     transports)
        IN /\ tasks' = [tasks EXCEPT ![t] = new]
           /\ UNCHANGED <<transports, failures, lcs>>
           /\ Continue(t, new)
     \/ \* lines 90-101: the sink threw or rejected
        LET failure == [transportName |-> tasks[t].name,
                        succeeded |-> FALSE, error |-> "boom"]
            failed == [tasks[t] EXCEPT !.results = Append(@, failure)]
            new == IF HasFlush(tasks[t].lc)
                     THEN [failed EXCEPT !.pc = "pub_flush",
                                         !.flushed = Append(@, tasks[t].name)]
                     ELSE PublishAdvance(failed, transports)
        IN /\ failures' = trimFailures(Append(failures, failure))
           /\ tasks' = [tasks EXCEPT ![t] = new]
           /\ UNCHANGED <<transports, lcs>>
           /\ Continue(t, new)

\* publish, lines 99-103, when the awaited recovery flush settled.
PublishFlushSettled(t) ==
  /\ tasks[t].pc = "pub_flush"
  /\ \E outcome \in {"ok", "threw"} :
       LET new == IF PublishAfterFlush(outcome) = "pending"
                    THEN PublishAdvance(tasks[t], transports)
                    ELSE SettleRejected(tasks[t])
       IN /\ tasks' = [tasks EXCEPT ![t] = new]
          /\ Continue(t, new)
  /\ UNCHANGED <<transports, failures, lcs>>

(* ----------------------- registry.flush / shutdown --------------------- *)

\* The next entry of the live iterator whose lifecycle has capability cap.
NextCapable(map, cursor, cap) ==
  IF \E i \in (cursor + 1)..Len(map) : lcs[map[i].lc].caps[cap]
    THEN CHOOSE i \in (cursor + 1)..Len(map) :
           /\ lcs[map[i].lc].caps[cap]
           /\ \A j \in (cursor + 1)..(i - 1) : ~lcs[map[j].lc].caps[cap]
    ELSE 0

\* flush's for loop, lines 108-112, up to its next await.
FlushAdvance(task, map) ==
  LET i == NextCapable(map, task.cursor, "flush")
  IN IF i = 0
       THEN Joined([task EXCEPT !.pc = "done", !.sub = "ok", !.cursor = Len(map)])
       ELSE [task EXCEPT !.pc = "flush_await", !.cursor = i, !.lc = map[i].lc,
                         !.flushed = Append(@, map[i].name)]

\* registry.flush(), lines 107-113, and the backend flush connector.flush
\* (284) starts beside it.
StartFlush(t, via) ==
  /\ FreeSlot(t)
  /\ tasks' = Started(t,
       FlushAdvance([IdleTask EXCEPT !.op = "flush", !.status = "pending",
                                     !.via = via, !.sub = "pending",
                                     !.bflush = IF via = "connector"
                                                  THEN "pending" ELSE "na"],
                    transports))
  /\ UNCHANGED <<transports, failures, lcs>>

\* flush, line 110, when the awaited lifecycle.flush settled.
FlushSettled(t) ==
  /\ tasks[t].pc = "flush_await"
  /\ \/ LET new == FlushAdvance(tasks[t], transports)
        IN tasks' = [tasks EXCEPT ![t] = new] /\ Continue(t, new)
     \/ LET new == Joined([tasks[t] EXCEPT !.pc = "done", !.sub = "failed"])
        IN tasks' = [tasks EXCEPT ![t] = new] /\ Continue(t, new)
  /\ UNCHANGED <<transports, failures, lcs>>

\* shutdown's for loop, lines 115-121, up to its next await, for the call in
\* slot t whose record is `task`, the other slots being `others`: the next
\* entry able to shut down has its shutdown invoked and awaited; with no
\* entry left the Map and the failure history are cleared.
ShutdownAdvance(t, task, others) ==
  LET i == NextCapable(transports, task.cursor, "shutdown")
  IN IF i = 0
       THEN /\ transports' = <<>>
            /\ failures' = <<>>
            /\ lcs' = lcs
            /\ tasks' = [AfterClear(others) EXCEPT ![t] =
                 Joined([task EXCEPT !.pc = "done", !.sub = "ok", !.cursor = 0])]
       ELSE /\ lcs' = InvokeShutdown(lcs, transports[i].lc)
            /\ tasks' = [others EXCEPT ![t] =
                 [task EXCEPT !.pc = "shutdown_await", !.cursor = i,
                              !.lc = transports[i].lc]]
            /\ UNCHANGED <<transports, failures>>

\* registry.shutdown(), lines 114-122, and the backend flush and close that
\* connector.shutdown (291-295) starts beside it.
StartShutdown(t, via) ==
  /\ FreeSlot(t)
  /\ \A i \in 1..Len(transports) : lcs[transports[i].lc].shutdowns < MaxShutdowns
  /\ LET backend == IF via = "connector" THEN "pending" ELSE "na"
     IN ShutdownAdvance(t,
          [IdleTask EXCEPT !.op = "shutdown", !.status = "pending", !.via = via,
                           !.sub = "pending", !.bflush = backend,
                           !.bclose = backend],
          Started(t, IdleTask))

\* shutdown, line 117, when the awaited lifecycle.shutdown settled: the loop
\* goes on, or the sink threw and shutdown rejects, the Map left as it is.
ShutdownSettled(t) ==
  /\ tasks[t].pc = "shutdown_await"
  /\ \/ ShutdownAdvance(t, tasks[t], tasks)
     \/ /\ tasks' = [tasks EXCEPT ![t] =
             Joined([tasks[t] EXCEPT !.pc = "done", !.sub = "failed"])]
        /\ UNCHANGED <<transports, failures, lcs>>
  /\ Continue(t, tasks'[t])

\* flushLogger (542-546): the backend's flush settled.
BackendFlushSettled(t) ==
  /\ tasks[t].bflush = "pending"
  /\ \E outcome \in {"ok", "failed"} :
       tasks' = [tasks EXCEPT ![t] = Joined([tasks[t] EXCEPT !.bflush = outcome])]
  /\ Continue(t, tasks'[t])
  /\ UNCHANGED <<transports, failures, lcs>>

\* closeLoggerTransport (548-557): the backend transport's close settled.
BackendCloseSettled(t) ==
  /\ tasks[t].bclose = "pending"
  /\ \E outcome \in {"ok", "failed"} :
       tasks' = [tasks EXCEPT ![t] = Joined([tasks[t] EXCEPT !.bclose = outcome])]
  /\ Continue(t, tasks'[t])
  /\ UNCHANGED <<transports, failures, lcs>>

(* ----------------------------- the connector --------------------------- *)

guardThrowsWhenStopped(s) == s = "stopped"

\* createStateGuard: the guard throws ConnectorStoppedError in these states.
guardThrows(s) == s \in {"stopped", "stopping"}

\* A guarded operation called on a connector that is stopping or stopped:
\* guard() throws before anything else runs.
GuardRejects ==
  /\ guardThrows(state)
  /\ lastResult' = "ConnectorStoppedError"
  /\ UNCHANGED <<transports, failures, lcs, tasks, state, config, context, loggers>>

\* A guarded synchronous operation that returns normally.
Returns ==
  /\ ~guardThrows(state)
  /\ lastResult' = "returned"

\* getRootLogger (175-178)
GetRootLogger ==
  \/ GuardRejects
  \/ /\ Returns
     /\ loggers' = loggers \cup {"root"}
     /\ UNCHANGED <<transports, failures, lcs, tasks, state, config, context>>

\* createLogger(bindings) (179-185): the root logger, or a child of it.
CreateLogger(bindings) ==
  \/ GuardRejects
  \/ /\ Returns
     /\ loggers' = loggers \cup {IF bindings THEN "child" ELSE "root"}
     /\ UNCHANGED <<transports, failures, lcs, tasks, state, config, context>>

\* logger.bind(bindings) (383-395)
Bind(lg) ==
  /\ lg \in loggers
  /\ \/ GuardRejects
     \/ /\ Returns
        /\ loggers' = loggers \cup {"child"}
        /\ UNCHANGED <<transports, failures, lcs, tasks, state, config, context>>

\* buildLogRecord (505-521), with what dispatch (431-448) does to the record
\* before the fan-out: nothing.  hooked / redacted say whether the record
\* has been through every enabled before-hook / every serializer rule,
\* which is so only when the configuration has none.
buildLogRecord(level, cfg) ==
  [level |-> level, hooked |-> ~cfg.plugins, redacted |-> ~cfg.serializers]

\* The after-hook invocations dispatch makes for the fan-out `task` it
\* started, each with the record and the results it is given: dispatch
\* attaches a catch handler to the fan-out's promise and does nothing else
\* with it.
afterHookCalls(task) == <<>>

\* How log returns once dispatch has started the fan-out `task`: publish is
\* an async function and dispatch only attaches `.catch` to its promise, so
\* nothing the fan-out does is thrown to the caller.
dispatchReturns(task) == "returned"

\* logger.log(level, ...) and the level methods (402-448).
Log(t, lg, level) ==
  /\ lg \in loggers
  /\ \/ GuardRejects
     \/ /\ ~guardThrows(state)
        /\ StartPublish(t, buildLogRecord(level, config), "log")
        /\ lastResult' = dispatchReturns(tasks'[t])
        /\ UNCHANGED <<state, config, context, loggers>>

\* applyLevel (104-110)
applyLevel(cfg, level) == [cfg EXCEPT !.level = level]

\* connector.setLevel (231-234)
SetLevel(level) ==
  \/ GuardRejects
  \/ /\ Returns
     /\ config' = applyLevel(config, level)
     /\ UNCHANGED <<transports, failures, lcs, tasks, state, context, loggers>>

\* logger.setLevel (374-377)
LoggerSetLevel(lg, level) ==
  /\ lg \in loggers
  /\ SetLevel(level)

\* The partial configurations an updateConfig call passes: `supplies` names
\* the fields that are present.
UpdateInputs ==
  { [supplies |-> {"level"}, level |-> "debug", transports |-> <<>>,
     plugins |-> FALSE, serializers |-> FALSE, malformed |-> {}],
    [supplies |-> {"plugins", "serializers"}, level |-> "info", transports |-> <<>>,
     plugins |-> TRUE, serializers |-> TRUE, malformed |-> {}] }

validatesLevelOnly(next) ==
  "level" \in next.supplies /\ next.level \notin LogLevels

\* normalizeConnectorConfig (index.ts 474-507) throws
\* InvalidConnectorConfigError for the merged configuration: the level is
\* not one of ALLOWED_LEVELS (assertLogLevel), a transport has no
\* non-empty name (normalizeTransports), or one of the supplied fields
\* named in `malformed` has a shape its validator rejects: a transport
\* without config, a plugin with a bad stage or a hook that is no
\* function, a serializer that is no function, a context that is no
\* object.  The fields taken from the current configuration were
\* validated when they were set.
throwsInvalidConnectorConfigError(next) ==
  \/ "level" \in next.supplies /\ next.level \notin LogLevels
  \/ /\ "transports" \in next.supplies
     /\ \E i \in 1..Len(next.transports) : next.transports[i] = ""
  \/ next.malformed \cap next.supplies # {}

\* The merged configuration of updateConfig, lines 237-249.
mergeConfig(cfg, next) ==
  [cfg EXCEPT
     !.level = IF "level" \in next.supplies THEN next.level ELSE @,
     !.transports = IF "transports" \in next.supplies THEN next.transports ELSE @,
     !.plugins = IF "plugins" \in next.supplies THEN next.plugins ELSE @,
     !.serializers =
        IF "serializers" \in next.supplies THEN next.serializers ELSE @]

\* The names in the `transports` list an updateConfig call is given.
passedTo(next) ==
  IF "transports" \in next.supplies
    THEN {next.transports[i] : i \in 1..Len(next.transports)}
    ELSE {}

\* The factory invocations that are pending or still to come.
FactoriesAhead ==
  Cardinality({u \in Tasks : tasks[u].pc = "reg_factory"})
    + Cardinality({p \in Tasks \X (1..MaxLifecycles) :
                     /\ tasks[p[1]].via = "configured"
                     /\ p[2] <= Len(tasks[p[1]].rest)})

\* updateConfig (235-281) of a connector built without builtin transports.
\* An invalid merged configuration makes it throw before anything is
\* assigned.  Otherwise the supplied fields replace the current ones, the
\* context manager is configured again, and registerConfiguredTransports
\* is started for the declared transports that have a factory.  configure
\* makes the configured initial context the active one, except that with
\* propagation a runtime that keeps the store of the caller's execution
\* context across storage.disable() leaves a context set earlier at that
\* level in place.
UpdateConfig(next) ==
  \/ GuardRejects
  \/ /\ ~guardThrows(state)
     /\ IF throwsInvalidConnectorConfigError(next)
          THEN /\ lastResult' = "InvalidConnectorConfigError"
               /\ UNCHANGED <<tasks, config, context>>
          ELSE /\ lastResult' = "returned"
               /\ config' = mergeConfig(config, next)
               /\ context' \in {"initial", context}
               /\ IF planned(mergeConfig(config, next)) = <<>>
                    THEN UNCHANGED tasks
                    ELSE /\ Len(lcs) + FactoriesAhead
                              + Len(planned(mergeConfig(config, next)))
                                <= MaxLifecycles
                         /\ \E t \in Tasks :
                              /\ FreeSlot(t)
                              /\ tasks' = Started(t,
                                   ConfiguredRun(planned(mergeConfig(config, next)),
                                                 passedTo(next)))
     /\ UNCHANGED <<transports, failures, lcs, state, loggers>>

\* setContext(patch) (302-305)
SetContext ==
  \/ GuardRejects
  \/ /\ Returns
     /\ context' = "patched"
     /\ UNCHANGED <<transports, failures, lcs, tasks, state, config, loggers>>

\* resetContext (313-316)
ResetContext ==
  \/ GuardRejects
  \/ /\ Returns
     /\ context' = "initial"
     /\ UNCHANGED <<transports, failures, lcs, tasks, state, config, loggers>>

\* runWithContext(context, callback) (306-312) with a callback that returns
\* at once: the scope is gone when the call returns.
RunWithContext ==
  \/ GuardRejects
  \/ /\ Returns
     /\ UNCHANGED <<transports, failures, lcs, tasks, state, config, context, loggers>>

\* The read-only queries state, config, listTransports and
\* getTransportDiagnostics (169-174, 225-230): no guard.
Query ==
  /\ lastResult' = "returned"
  /\ UNCHANGED <<transports, failures, lcs, tasks, state, config, context, loggers>>

\* registerTransport (198-214)
RegisterTransport(t, n, lvl, caps) ==
  \/ GuardRejects
  \/ /\ Returns
     /\ StartRegister(t, n, lvl, caps, "connector")
     /\ UNCHANGED <<state, config, context, loggers>>

\* removeTransport (215-224)
RemoveTransport(t, n) ==
  \/ GuardRejects
  \/ /\ Returns
     /\ StartRemove(t, n, "connector")
     /\ Continuation(tasks'[t], FALSE)

\* connector.flush (282-285)
Flush(t) ==
  \/ GuardRejects
  \/ /\ Returns
     /\ StartFlush(t, "connector")
     /\ Continuation(tasks'[t], FALSE)

\* logger.flush (397-400)
LoggerFlush(t, lg) ==
  /\ lg \in loggers
  /\ \/ GuardRejects
     \/ /\ Returns
        /\ FreeSlot(t)
        /\ tasks' = Started(t, [IdleTask EXCEPT !.op = "loggerFlush",
                                                !.status = "pending",
                                                !.via = "logger",
                                                !.bflush = "pending"])
        /\ UNCHANGED <<transports, failures, lcs, state, config, context, loggers>>

shutdownNeverReturnsEarly(s) == FALSE

\* shutdown, lines 287-289: a stopped connector returns at once.
shutdownReturnsEarly(s) == s = "stopped"

\* connector.shutdown (286-297)
Shutdown(t) ==
  \/ /\ shutdownReturnsEarly(state)
     /\ lastResult' = "returned"
     /\ UNCHANGED <<transports, failures, lcs, tasks, state, config, context, loggers>>
  \/ /\ ~shutdownReturnsEarly(state)
     /\ StartShutdown(t, "connector")
     /\ state' = "stopping"
     /\ lastResult' = "returned"
     /\ UNCHANGED <<config, context, loggers>>

(* ---------------------------- plugin hooks ----------------------------- *)

\* `registration.order ?? 0` (hooks/index.ts 50); an optional field is a
\* sequence of at most one value.
orderOf(registration) ==
  IF registration.order = <<>> THEN 0 ELSE registration.order[1]

\* Lines 43-58: the registrations that are not disabled, in list order,
\* with their order defaulted, those of one stage.
planEntries(registrations, stage) ==
  LET kept == SelectSeq(registrations,
                LAMBDA r : r.enabled # <<FALSE>> /\ r.stage = stage)
  IN [i \in 1..Len(kept) |-> [name |-> kept[i].name, order |-> orderOf(kept[i])]]

insertBeforeEqual(sorted, entry) ==
  LET k == Cardinality({i \in 1..Len(sorted) : sorted[i].order < entry.order})
  IN SubSeq(sorted, 1, k) \o <<entry>> \o SubSeq(sorted, k + 1, Len(sorted))

\* One entry takes its place in a sorted array: after every entry the
\* comparator `left.order - right.order` does not put behind it.
insertSorted(sorted, entry) ==
  LET k == Cardinality({i \in 1..Len(sorted) : sorted[i].order - entry.order <= 0})
  IN SubSeq(sorted, 1, k) \o <<entry>> \o SubSeq(sorted, k + 1, Len(sorted))

\* Array.prototype.sort with the comparator of lines 60-61; the sort is
\* stable.
RECURSIVE sortByOrder(_)
sortByOrder(plan) ==
  IF plan = <<>> THEN <<>>
  ELSE insertSorted(sortByOrder(SubSeq(plan, 1, Len(plan) - 1)), plan[Len(plan)])

\* buildPluginExecutionPlan (37-67)
buildPluginExecutionPlan(registrations) ==
  [before |-> sortByOrder(planEntries(registrations, "before")),
   after |-> sortByOrder(planEntries(registrations, "after"))]

\* The record a hook run is given: an object whose content is the list of
\* the stamps put on its message, the base message first.
BaseRecord == <<0>>

\* A call of runBeforeHooks or runAfterHooks.  `input` is the content of
\* the record object the caller passed in; `current` is currentRecord,
\* either that object or a copy with a content of its own; `calls` lists
\* the record each hook was called with and `did` what each hook did
\* (whether it called setRecord, whether it threw); executed, failed and
\* `results` (the errors) are the telemetry.
HookRun(op) ==
  [input |-> BaseRecord, current |-> [ref |-> "input", content |-> <<>>],
   calls |-> <<>>, did |-> <<>>, executed |-> 0, failed |-> 0]
    @@ [IdleTask EXCEPT !.op = op, !.status = "pending", !.via = "hooks"]

\* The content of currentRecord.
currentRecord(task) ==
  IF task.current.ref = "input" THEN task.input ELSE task.current.content

\* The for loops of runBeforeHooks (76-86) and runAfterHooks (99-107), from
\* one hook to the next await: telemetry.executed is incremented and the
\* next hook of the plan is called with the current record; after the last
\* one the call resolves.  `invoked` lists the hooks called so far.
HooksAdvance(task, plan) ==
  IF task.cursor = Len(plan)
    THEN [task EXCEPT !.pc = "done", !.status = "resolved"]
    ELSE [task EXCEPT !.pc = IF task.op = "runBeforeHooks"
                               THEN "hook_await" ELSE "after_await",
                      !.cursor = @ + 1,
                      !.executed = @ + 1,
                      !.invoked = Append(@, plan[task.cursor + 1].name),
                      !.calls = Append(@, currentRecord(task))]

\* runBeforeHooks(plan.before, record), lines 69-78, with the plan built
\* from config.plugins.
StartBeforeHooks(t) ==
  /\ FreeSlot(t)
  /\ tasks' = Started(t,
       HooksAdvance(HookRun("runBeforeHooks"),
                    buildPluginExecutionPlan(config.plugins).before))
  /\ UNCHANGED <<transports, failures, lcs, connVars>>

\* The catch blocks of lines 80-84 and 103-107: failed is incremented and
\* the hook's name and error are added to telemetry.errors.
hookFailed(task, name) ==
  [task EXCEPT !.failed = @ + 1,
               !.results = Append(@, [name |-> name, error |-> "boom"])]

setRecordInPlace(task, updated) ==
  [task EXCEPT !.input = updated, !.current = [ref |-> "input", content |-> <<>>]]

\* Line 79 after setRecord (119-121) was called with `updated`:
\* nextRecord is a copy of `updated`, and becomes currentRecord.
setRecord(task, updated) ==
  [task EXCEPT !.current = [ref |-> "copy", content |-> updated]]

hookThrewRecordKept(task, name, updated) ==
  hookFailed(setRecord(task, updated), name)

\* Lines 79-84 when the hook threw or rejected: the assignment of line 79
\* does not happen, whatever the hook passed to setRecord.
hookThrew(task, name, updated) ==
  hookFailed(task, name)

\* Lines 78-85: the awaited before-hook settles.  The hook has or has not
\* called setRecord with the record it was given, its own stamp added; it
\* returned (or its promise resolved), or it threw.  The loop goes on.
BeforeHookSettled(t) ==
  /\ tasks[t].pc = "hook_await"
  /\ \E sets \in BOOLEAN, threw \in BOOLEAN :
       LET plan == buildPluginExecutionPlan(config.plugins).before
           name == plan[tasks[t].cursor].name
           updated == Append(currentRecord(tasks[t]), name)
           seen == [tasks[t] EXCEPT !.did = Append(@, [set |-> sets, threw |-> threw])]
           after == IF threw THEN hookThrew(seen, name, updated)
                    ELSE IF sets THEN setRecord(seen, updated)
                    ELSE seen
       IN tasks' = [tasks EXCEPT ![t] = HooksAdvance(after, plan)]
  /\ UNCHANGED <<transports, failures, lcs, connVars>>

\* runAfterHooks(plan.after, context), lines 91-99.
StartAfterHooks(t) ==
  /\ FreeSlot(t)
  /\ tasks' = Started(t,
       HooksAdvance(HookRun("runAfterHooks"),
                    buildPluginExecutionPlan(config.plugins).after))
  /\ UNCHANGED <<transports, failures, lcs, connVars>>

\* Lines 101-107: the awaited after-hook settles.
AfterHookSettled(t) ==
  /\ tasks[t].pc = "after_await"
  /\ \E threw \in BOOLEAN :
       LET plan == buildPluginExecutionPlan(config.plugins).after
           name == plan[tasks[t].cursor].name
           seen == [tasks[t] EXCEPT !.did = Append(@, [set |-> FALSE, threw |-> threw])]
           after == IF threw THEN hookFailed(seen, name) ELSE seen
       IN tasks' = [tasks EXCEPT ![t] = HooksAdvance(after, plan)]
  /\ UNCHANGED <<transports, failures, lcs, connVars>>

(* ----------------------------- serializers ----------------------------- *)

\* JavaScript values: undefined, a primitive, or a reference to an object
\* of the heap.  The heap is the sequence of the objects allocated so far;
\* an object is a plain record with its own properties, or an array.
Undefined == [t |-> "undefined", x |-> 0]
Num(n) == [t |-> "number", x |-> n]
Ref(id) == [t |-> "object", x |-> id]

NoProps == [k \in {} |-> Undefined]
PlainObject(props) == [array |-> FALSE, props |-> props, items |-> <<>>]
ArrayObject(items) == [array |-> TRUE, props |-> NoProps, items |-> items]

\* Array.isArray
isArray(heap, value) == value.t = "object" /\ heap[value.x].array

\* isRecord (254-256)
isRecord(heap, value) == value.t = "object" /\ ~heap[value.x].array

\* isContainer (258-262)
isContainer(heap, value) == isArray(heap, value) \/ isRecord(heap, value)

\* toArrayIndex (246-252): the segments made of digits only, with the
\* number they parse to; NoIndex is its `undefined`.
DigitSegments == <<"0", "1", "2", "3">>
NoIndex == -1
toArrayIndex(segment) ==
  IF \E i \in 1..Len(DigitSegments) : DigitSegments[i] = segment
    THEN (CHOOSE i \in 1..Len(DigitSegments) : DigitSegments[i] = segment) - 1
    ELSE NoIndex

\* accessProperty (217-226)
accessProperty(heap, target, segment) ==
  IF isArray(heap, target)
    THEN LET index == toArrayIndex(segment)
             items == heap[target.x].items
         IN IF index = NoIndex \/ index >= Len(items)
              THEN Undefined ELSE items[index + 1]
  ELSE IF isRecord(heap, target)
    THEN IF segment \in DOMAIN heap[target.x].props
           THEN heap[target.x].props[segment] ELSE Undefined
  ELSE Undefined

\* getByPath (143-152)
RECURSIVE getByPath(_, _, _)
getByPath(heap, target, segments) ==
  IF segments = <<>> THEN target
  ELSE LET current == accessProperty(heap, target, Head(segments))
       IN IF current = Undefined THEN current
          ELSE getByPath(heap, current, Tail(segments))

\* assignProperty (228-244); an array written past its end grows, the
\* elements in between being holes.
assignProperty(heap, target, segment, value) ==
  IF isArray(heap, target)
    THEN LET index == toArrayIndex(segment)
             items == heap[target.x].items
             length == IF index + 1 > Len(items) THEN index + 1 ELSE Len(items)
         IN IF index = NoIndex THEN heap
            ELSE [heap EXCEPT ![target.x].items =
                    [i \in 1..length |->
                       IF i = index + 1 THEN value
                       ELSE IF i <= Len(items) THEN items[i] ELSE Undefined]]
  ELSE IF isRecord(heap, target)
    THEN [heap EXCEPT ![target.x].props = (segment :> value) @@ @]
  ELSE heap

\* setByPath (154-182): an intermediate segment that holds no container
\* gets a new empty object.
RECURSIVE setByPath(_, _, _, _)
setByPath(heap, target, segments, value) ==
  IF segments = <<>> THEN heap
  ELSE IF Len(segments) = 1
    THEN assignProperty(heap, target, segments[1], value)
  ELSE LET next == accessProperty(heap, target, Head(segments))
           fresh == Ref(Len(heap) + 1)
       IN IF isContainer(heap, next)
            THEN setByPath(heap, next, Tail(segments), value)
            ELSE setByPath(
                   assignProperty(Append(heap, PlainObject(NoProps)),
                                  target, Head(segments), fresh),
                   fresh, Tail(segments), value)

deleteByPathLeavingHole(heap, target, segments) ==
  LET parent == getByPath(heap, target, SubSeq(segments, 1, Len(segments) - 1))
      property == segments[Len(segments)]
  IN IF segments = <<>> \/ ~isContainer(heap, parent)
       THEN [heap |-> heap, deleted |-> FALSE]
       ELSE [heap |-> assignProperty(heap, parent, property, Undefined),
             deleted |-> TRUE]

\* deleteByPath (184-215): the heap after the call and what it returned.
deleteByPath(heap, target, segments) ==
  LET parent == getByPath(heap, target, SubSeq(segments, 1, Len(segments) - 1))
      property == segments[Len(segments)]
      index == toArrayIndex(property)
      kept == [heap |-> heap, deleted |-> FALSE]
  IN IF segments = <<>> THEN kept
     ELSE IF ~isContainer(heap, parent) THEN kept
     ELSE IF isArray(heap, parent)
       THEN LET items == heap[parent.x].items
            IN IF index = NoIndex \/ index < 0 \/ index >= Len(items) THEN kept
               ELSE [heap |-> [heap EXCEPT ![parent.x].items =
                                 SubSeq(items, 1, index)
                                   \o SubSeq(items, index + 2, Len(items))],
                     deleted |-> TRUE]
     ELSE IF property \in DOMAIN heap[parent.x].props
       THEN [heap |-> [heap EXCEPT ![parent.x].props =
                         [k \in DOMAIN @ \ {property} |-> @[k]]],
             deleted |-> TRUE]
     ELSE kept

\* `{ ...value }`: a new object with the own properties of a plain object,
\* and none when the value is undefined or a primitive.
spread(heap, value) ==
  IF isRecord(heap, value) THEN PlainObject(heap[value.x].props)
  ELSE PlainObject(NoProps)

\* Lines 96-101: `metadata[key] = { ...metadata[key] }` when it is a record.
cloneNested(heap, metadata, key) ==
  LET nested == accessProperty(heap, metadata, key)
  IN IF isRecord(heap, nested)
       THEN assignProperty(Append(heap, spread(heap, nested)),
                           metadata, key, Ref(Len(heap) + 1))
       ELSE heap

\* cloneRecord (87-104): the heap after the call and the clone.  The record
\* is copied one level deep, bindings, context and metadata one level
\* deep, and so are metadata.data and metadata.context.
cloneRecord(heap, record) ==
  LET n == Len(heap)
      source == heap[record.x].props
      cloned ==
        PlainObject(
          [k \in DOMAIN source \cup {"bindings", "context", "metadata"} |->
             CASE k = "bindings" -> Ref(n + 2)
               [] k = "context" -> Ref(n + 3)
               [] k = "metadata" -> Ref(n + 4)
               [] OTHER -> source[k]])
      copied == heap \o << cloned,
                           spread(heap, accessProperty(heap, record, "bindings")),
                           spread(heap, accessProperty(heap, record, "context")),
                           spread(heap, accessProperty(heap, record, "metadata")) >>
  IN [heap |-> cloneNested(cloneNested(copied, Ref(n + 4), "data"),
                           Ref(n + 4), "context"),
      record |-> Ref(n + 1)]

contextAlways(heap, record, segments) == TRUE

\* createSerializerContext (112-119): there is a context, and the rule's
\* callback is called, unless the path is empty or has a parent that is
\* not a container.
hasContext(heap, record, segments) ==
  /\ Len(segments) # 0
  /\ ~ ( /\ ~isContainer(heap,
               getByPath(heap, record, SubSeq(segments, 1, Len(segments) - 1)))
         /\ Len(segments) > 1 )

\* The value a rule replaces with.
Replacement == Num(0)

\* A call of runSerializers.  `heap` holds every object; `before` is the
\* heap as the caller passed the record in, `input` that record and
\* `current` currentRecord; `called` lists the keys of the rules whose
\* callback was called; executed, redacted, replaced, failed and `results`
\* (the errors) are the telemetry.
SerializerRun(heap, record) ==
  [heap |-> heap, before |-> heap, input |-> record, current |-> record,
   called |-> <<>>, executed |-> 0, redacted |-> 0, replaced |-> 0, failed |-> 0]
    @@ [IdleTask EXCEPT !.op = "runSerializers", !.status = "pending",
                        !.via = "serializers"]

\* runSerializers, lines 34-40, with the map of config.serializers: with no
\* entries the record itself is returned; otherwise it is cloned.
StartSerializers(t, heap, record) ==
  /\ FreeSlot(t)
  /\ tasks' = Started(t,
       IF Len(config.serializers) = 0
         THEN [SerializerRun(heap, record) EXCEPT !.pc = "done", !.status = "resolved"]
         ELSE LET clone == cloneRecord(heap, record)
              IN [SerializerRun(heap, record) EXCEPT
                    !.pc = "ser_rule", !.heap = clone.heap, !.current = clone.record])
  /\ UNCHANGED <<transports, failures, lcs, connVars>>

\* What the callback of a rule does with its context before it returns or
\* throws: nothing, redact() (127-131) or replace(next) (132-135).
applyRule(task, rule) ==
  LET called == [task EXCEPT !.called = Append(@, rule.key)]
      removal == deleteByPath(task.heap, task.current, rule.key)
  IN CASE rule.action = "redact" ->
            [called EXCEPT !.heap = removal.heap,
                           !.redacted = IF removal.deleted THEN @ + 1 ELSE @]
       [] rule.action = "replace" ->
            [called EXCEPT !.heap = setByPath(task.heap, task.current,
                                              rule.key, Replacement),
                           !.replaced = @ + 1]
       [] OTHER -> called

\* Lines 61-65: the catch block.
ruleFailed(task, rule) ==
  [task EXCEPT !.failed = @ + 1,
               !.results = Append(@, [key |-> rule.key, error |-> "boom"])]

\* One round of the loop, lines 42-68: executed is incremented; without a
\* context the rule is passed over; otherwise its callback runs and is
\* awaited, a throw or rejection is caught, and currentRecord is the
\* context's record again.  After the last entry the call resolves.
SerializerRuleDone(t) ==
  /\ tasks[t].pc = "ser_rule"
  /\ LET rule == config.serializers[tasks[t].cursor + 1]
         counted == [tasks[t] EXCEPT !.executed = @ + 1, !.cursor = @ + 1]
         applied == applyRule(counted, rule)
         after == IF ~hasContext(counted.heap, counted.current, rule.key)
                    THEN counted
                  ELSE IF rule.throws THEN ruleFailed(applied, rule)
                  ELSE applied
         new == IF after.cursor = Len(config.serializers)
                  THEN [after EXCEPT !.pc = "done", !.status = "resolved"]
                  ELSE after
     IN tasks' = [tasks EXCEPT ![t] = new]
  /\ UNCHANGED <<transports, failures, lcs, connVars>>

(* --------------------------- context manager --------------------------- *)

\* The context manager's state (part_002 24-27): its options, the
\* fallbackContext, and `store`, what the AsyncLocalStorage holds for the
\* application's own (top-level) execution context: <<>> when it holds
\* nothing, <<c>> when it holds c.  The execution context of a callback's
\* continuations has a store of its own, kept with the call.
ContextManager(initial, propagate) ==
  [initialContext |-> initial, propagateAsync |-> propagate,
   fallbackContext |-> initial, store |-> <<>>]

readFallbackContext(manager, store) == manager.fallbackContext

\* readActiveContext (29-36), called in the execution context whose store
\* is `store`.
readActiveContext(manager, store) ==
  IF manager.propagateAsync
    THEN IF store # <<>> THEN store[1] ELSE manager.fallbackContext
    ELSE manager.fallbackContext

\* writeContext (38-43): the manager and the caller's store afterwards;
\* storage.enterWith replaces the store of the current execution context.
writeContext(manager, store, next) ==
  [manager |-> [manager EXCEPT !.fallbackContext = next],
   store |-> IF manager.propagateAsync THEN <<next>> ELSE store]

\* setContext(patch) (49-55): `{ ...readActiveContext(), ...patch }`.
setContext(manager, store, patch) ==
  writeContext(manager, store, patch @@ readActiveContext(manager, store))

\* resetContext (73-76)
resetContext(manager, store) ==
  writeContext(manager, store, manager.initialContext)

\* What a callback does between two of its awaits: nothing, setContext
\* with its own patch, or resetContext.
insideScope(manager, store, inside, patch) ==
  CASE inside = "set" -> setContext(manager, store, patch)
    [] inside = "reset" -> resetContext(manager, store)
    [] OTHER -> [manager |-> manager, store |-> store]

\* A call of runWithContext: `scope` is the context it was given, `prior`
\* what getContext returned to the caller just before the call, `store`
\* the store of the callback's continuations, `seen` what getContext
\* returned inside the callback at each point, with whether the callback
\* had called setContext and resetContext by then.
ContextRun(scope, prior) ==
  [scope |-> scope, prior |-> prior, store |-> <<>>, seen |-> <<>>,
   patched |-> FALSE, wasReset |-> FALSE, hops |-> 0]
    @@ [IdleTask EXCEPT !.op = "runWithContext", !.status = "pending",
                        !.via = "context"]

\* The callback calls getContext.
observe(task, manager, store) ==
  [task EXCEPT !.seen = Append(@, [value |-> readActiveContext(manager, store),
                                   patched |-> task.patched,
                                   reset |-> task.wasReset])]

\* A stretch of the callback: it calls getContext, does `inside`, calls
\* getContext again, and then returns, throws or awaits.
stretch(task, manager, store, inside, patch, outcome) ==
  LET first == observe(task, manager, store)
      did == insideScope(manager, store, inside, patch)
      marked == [first EXCEPT !.patched = @ \/ inside = "set",
                              !.wasReset = @ \/ inside = "reset"]
      second == observe(marked, did.manager, did.store)
  IN [manager |-> did.manager,
      task |-> CASE outcome = "awaits" ->
                      [second EXCEPT !.pc = "ctx_await", !.hops = @ + 1,
                                     !.store = did.store]
                 [] outcome = "throws" ->
                      [second EXCEPT !.pc = "done", !.status = "rejected",
                                     !.store = did.store]
                 [] OTHER ->
                      [second EXCEPT !.pc = "done", !.status = "resolved",
                                     !.store = did.store]]

leaveScopeUnrestored(manager, caller) ==
  [manager EXCEPT !.store = caller.store]

\* The end of runWithContext (58-71), when the callback has returned, thrown
\* or handed back a promise at its first await: storage.run puts the
\* caller's store back, and without propagation the `finally` puts the
\* previous fallbackContext back.  `caller` is the manager as the call
\* found it.
leaveScope(manager, caller) ==
  IF caller.propagateAsync
    THEN [manager EXCEPT !.store = caller.store]
    ELSE [manager EXCEPT !.fallbackContext = caller.fallbackContext]

\* runWithContext(context, callback) (56-72), called from the top level,
\* up to its return: the callback runs until it returns, throws or reaches
\* its first await.  With propagation, storage.run gives the execution
\* context the store `next` for the callback and puts the old store back
\* afterwards; without, fallbackContext is `next` for the callback and the
\* previous one afterwards.
StartRunWithContext(t, scope, inside, patch, outcome) ==
  /\ FreeSlot(t)
  /\ LET task == ContextRun(scope, readActiveContext(context, context.store))
         ran == IF context.propagateAsync
                  THEN stretch(task, context, <<scope>>, inside, patch, outcome)
                  ELSE stretch(task, [context EXCEPT !.fallbackContext = scope],
                               <<>>, inside, patch, outcome)
     IN /\ tasks' = Started(t, ran.task)
        /\ context' = leaveScope(ran.manager, context)
  /\ UNCHANGED <<transports, failures, lcs, state, config, loggers, lastResult>>

\* The callback resumes after an await, in the execution context of its
\* continuation, and runs to its next await or to its end.
ContextResumed(t, inside, patch, outcome) ==
  /\ tasks[t].pc = "ctx_await"
  /\ outcome = "awaits" => tasks[t].hops < MaxHops
  /\ LET ran == stretch(tasks[t], context, tasks[t].store, inside, patch, outcome)
     IN /\ tasks' = [tasks EXCEPT ![t] = ran.task]
        /\ context' = ran.manager
  /\ UNCHANGED <<transports, failures, lcs, state, config, loggers, lastResult>>

\* The application calls setContext or resetContext at the top level.
TopLevelContext(inside, patch) ==
  /\ inside # "none"
  /\ LET did == insideScope(context, context.store, inside, patch)
     IN context' = [did.manager EXCEPT !.store = did.store]
  /\ UNCHANGED <<transports, failures, lcs, tasks, state, config, loggers, lastResult>>

\* configure(newOptions) (77-90), called in the execution context whose
\* store is `store`: the manager and that store afterwards.  It replaces
\* the options and fallbackContext and calls storage.disable(), followed
\* with propagation by storage.run(next, no-op), which enables the storage
\* again and leaves the caller's store as it finds it.  What disable()
\* does to the store of the current execution context depends on the
\* runtime: where the stores are properties of the async resources
\* (Node.js 18 to 22) disable() only makes getStore return undefined until
\* the next run or enterWith, and the store is `kept`; where they are held
\* in the current context frame (Node.js 24) disable() deletes it.
configure(manager, store, initial, propagate, kept) ==
  [manager |-> [manager EXCEPT !.initialContext = initial,
                               !.propagateAsync = propagate,
                               !.fallbackContext = initial],
   store |-> IF kept THEN store ELSE <<>>]

\* The application calls configure at the top level.
Configure(initial, propagate, kept) ==
  /\ LET did == configure(context, context.store, initial, propagate, kept)
     IN context' = [did.manager EXCEPT !.store = did.store]
  /\ UNCHANGED <<transports, failures, lcs, tasks, state, config, loggers, lastResult>>

(* ---------------------------- diagnostics ------------------------------ *)

\* registry.getDiagnostics (index.ts 123-128): the Map's values in order and
\* a copy of the failure history.
getDiagnostics == [transports |-> transports, failures |-> failures]

\* What a sink's lifecycle.getDiagnostics does when the snapshot calls it:
\* the lifecycle has none, it reports isHealthy true or false (an absent
\* isHealthy counts as true, line 788), it throws an error, or it throws
\* the value undefined.
DiagOutcomes == {"absent", "healthy", "unhealthy", "throws", "throwsUndefined"}

\* Lines 739-745: the entries of the history that carry the name.
failureCounts(history, n) ==
  Cardinality({i \in 1..Len(history) : history[i].transportName = n})

\* Lines 742-744: the error of the newest entry of the name.
lastErrors(history, n) ==
  LET own == {i \in 1..Len(history) : history[i].transportName = n}
  IN IF own = {} THEN "undefined"
     ELSE history[CHOOSE i \in own : \A j \in own : j <= i].error

\* Lines 777-785: `diagnostics` is what getDiagnostics returned, and stays
\* undefined when there is no getDiagnostics or when it threw.
diagnosticsOf(outcome) ==
  IF outcome \in {"healthy", "unhealthy"} THEN outcome ELSE "undefined"

\* Lines 778-785: `diagnosticsError` is the value the catch block caught,
\* and undefined when nothing was thrown.
diagnosticsErrorOf(outcome) ==
  CASE outcome = "throws" -> "error"
    [] outcome = "throwsUndefined" -> "undefined"
    [] OTHER -> "undefined"

healthyWhateverFailed(failureCount, diagnostics, diagnosticsError) ==
  /\ diagnosticsError = "undefined"
  /\ diagnostics # "unhealthy"

\* Lines 785-788.
healthy(failureCount, diagnostics, diagnosticsError) ==
  /\ failureCount = 0
  /\ diagnosticsError = "undefined"
  /\ diagnostics # "unhealthy"

\* buildTransportHealthSnapshot (772-802): the try/catch of lines 779-785
\* keeps a throwing getDiagnostics from leaving the function.
buildTransportHealthSnapshot(transport, failureCount, lastError, outcome) ==
  [name |-> transport.name,
   level |-> transport.level,
   healthy |-> healthy(failureCount, diagnosticsOf(outcome),
                       diagnosticsErrorOf(outcome)),
   failureCount |-> failureCount,
   lastError |-> lastError,
   diagnostics |-> diagnosticsOf(outcome),
   diagnosticsError |-> diagnosticsErrorOf(outcome)]

\* buildConnectorDiagnosticsSnapshot (733-764); outcomes gives, for each
\* listed transport, what its getDiagnostics does.
buildConnectorDiagnosticsSnapshot(diagnostics, outcomes) ==
  LET entries ==
        [i \in 1..Len(diagnostics.transports) |->
           buildTransportHealthSnapshot(
             diagnostics.transports[i],
             failureCounts(diagnostics.failures, diagnostics.transports[i].name),
             lastErrors(diagnostics.failures, diagnostics.transports[i].name),
             outcomes[i])]
  IN [status |-> IF \A i \in 1..Len(entries) : entries[i].healthy
                   THEN "healthy" ELSE "degraded",
      transports |-> entries,
      failures |-> diagnostics.failures]

(* --------------------------- specifications ---------------------------- *)

\* The sinks an application registers through the connector: each can
\* flush and shut down, and has no threshold.
SinkNames == {"a"}
SinkCaps == {[flush |-> TRUE, shutdown |-> TRUE]}
EmitLevels == {"info"}
LoggerNames == {"root", "child"}

\* updateConfig({ plugins, serializers })
PipelineInput ==
  [supplies |-> {"plugins", "serializers"}, level |-> "info", transports |-> <<>>,
   plugins |-> TRUE, serializers |-> TRUE, malformed |-> {}]

\* The application's calls wait for one another while the connector runs.
OneAtATime == Quiescent \/ state # "running"

\* An await of the call in slot t settles.
SettleCall(t) ==
  \/ RegisterFactoryDone(t)
  \/ RegisterShutdownDone(t)
  \/ PublishSettled(t)
  \/ PublishFlushSettled(t)
  \/ ShutdownSettled(t)
  \/ BackendFlushSettled(t)
  \/ BackendCloseSettled(t)

Settle == \E t \in Tasks : SettleCall(t)

\* An application configures the pipeline, registers sinks one at a time,
\* logs through the root logger and shuts the connector down, log and
\* shutdown calls overlapping whatever is in flight.
Next ==
  \/ GetRootLogger
  \/ \E t \in Tasks, lvl \in EmitLevels : Log(t, "root", lvl)
  \/ UpdateConfig(PipelineInput)
  \/ \E t \in Tasks, n \in SinkNames, caps \in SinkCaps :
       OneAtATime /\ RegisterTransport(t, n, "none", caps)
  \/ \E t \in Tasks : Shutdown(t)
  \/ Settle

Spec == Init /\ [][Next]_vars

\* The same application, every awaited call settling sooner or later.
SpecLive == Init /\ [][Next]_vars /\ \A t \in Tasks : WF_vars(SettleCall(t))

\* An application registers one sink once and then uses the connector's
\* whole interface, one call at a time, except that shutdown may be called
\* while another call is in flight.
NextGuard ==
  \/ GetRootLogger
  \/ \E b \in BOOLEAN : CreateLogger(b)
  \/ \E lg \in LoggerNames : Bind(lg)
  \/ \E t \in Tasks, lg \in LoggerNames, lvl \in EmitLevels :
       OneAtATime /\ Log(t, lg, lvl)
  \/ SetLevel("debug")
  \/ \E lg \in LoggerNames : LoggerSetLevel(lg, "debug")
  \/ \E next \in UpdateInputs : UpdateConfig(next)
  \/ SetContext
  \/ ResetContext
  \/ RunWithContext
  \/ Query
  \/ \E t \in Tasks, n \in SinkNames, caps \in SinkCaps :
       /\ OneAtATime
       /\ state = "running" => lcs = <<>>
       /\ RegisterTransport(t, n, "none", caps)
  \/ \E t \in Tasks, n \in SinkNames : OneAtATime /\ RemoveTransport(t, n)
  \/ \E t \in Tasks : OneAtATime /\ Flush(t)
  \/ \E t \in Tasks, lg \in LoggerNames : OneAtATime /\ LoggerFlush(t, lg)
  \/ \E t \in Tasks : Shutdown(t)
  \/ \E t \in Tasks : RegisterFactoryDone(t)
  \/ \E t \in Tasks : RemoveShutdownDone(t)
  \/ \E t \in Tasks : PublishSettled(t)
  \/ \E t \in Tasks : PublishFlushSettled(t)
  \/ \E t \in Tasks : FlushSettled(t)
  \/ \E t \in Tasks : ShutdownSettled(t)
  \/ \E t \in Tasks : BackendFlushSettled(t)
  \/ \E t \in Tasks : BackendCloseSettled(t)

SpecGuard == Init /\ [][NextGuard]_vars

\* Callers of a bare registry register transports concurrently.
NextRegister ==
  \/ \E t \in Tasks, n \in TransportNames, s \in BOOLEAN :
       /\ StartRegister(t, n, "none", [flush |-> FALSE, shutdown |-> s], "registry")
       /\ UNCHANGED connVars
  \/ \E t \in Tasks : RegisterFactoryDone(t)
  \/ \E t \in Tasks : RegisterShutdownDone(t)

SpecRegister == Init /\ [][NextRegister]_vars

\* A caller of a bare registry registers sinks under distinct names, one
\* call at a time, and publishes records of every level.
NextFanout ==
  \/ \E t \in Tasks, n \in TransportNames, lvl \in Thresholds, f \in BOOLEAN :
       /\ Quiescent
       /\ MapIndex(transports, n) = 0
       /\ StartRegister(t, n, lvl, [flush |-> f, shutdown |-> FALSE], "registry")
       /\ UNCHANGED connVars
  \/ \E t \in Tasks : RegisterFactoryDone(t)
  \/ \E t \in Tasks, lvl \in LogLevels :
       /\ Quiescent
       /\ StartPublish(t, [NoRecord EXCEPT !.level = lvl], "registry")
       /\ UNCHANGED connVars
  \/ \E t \in Tasks : PublishSettled(t)
  \/ \E t \in Tasks : PublishFlushSettled(t)

SpecFanout == Init /\ [][NextFanout]_vars

\* A caller of a bare registry registers and removes transports, one call
\* at a time.
NextRemove ==
  \/ \E t \in Tasks, n \in TransportNames, s \in BOOLEAN :
       /\ Quiescent
       /\ StartRegister(t, n, "none", [flush |-> FALSE, shutdown |-> s], "registry")
       /\ UNCHANGED connVars
  \/ \E t \in Tasks : RegisterFactoryDone(t)
  \/ \E t \in Tasks : RegisterShutdownDone(t)
  \/ \E t \in Tasks, n \in TransportNames :
       /\ Quiescent
       /\ StartRemove(t, n, "registry")
       /\ UNCHANGED connVars
  \/ \E t \in Tasks : RemoveShutdownDone(t)

SpecRemove == Init /\ [][NextRemove]_vars

\* The lifecycles a caller of a bare registry registers.
AnyCaps == [flush : BOOLEAN, shutdown : BOOLEAN]

\* A caller of a bare registry registers sinks under distinct names,
\* publishes, flushes and shuts the registry down, one call at a time.
NextRegistry ==
  \/ \E t \in Tasks, n \in TransportNames, caps \in AnyCaps :
       /\ Quiescent
       /\ MapIndex(transports, n) = 0
       /\ StartRegister(t, n, "none", caps, "registry")
       /\ UNCHANGED connVars
  \/ \E t \in Tasks : RegisterFactoryDone(t)
  \/ \E t \in Tasks :
       /\ Quiescent
       /\ StartPublish(t, [NoRecord EXCEPT !.level = "info"], "registry")
       /\ UNCHANGED connVars
  \/ \E t \in Tasks : PublishSettled(t)
  \/ \E t \in Tasks : PublishFlushSettled(t)
  \/ \E t \in Tasks : Quiescent /\ StartFlush(t, "registry") /\ UNCHANGED connVars
  \/ \E t \in Tasks : FlushSettled(t)
  \/ \E t \in Tasks : Quiescent /\ StartShutdown(t, "registry") /\ UNCHANGED connVars
  \/ \E t \in Tasks : ShutdownSettled(t)

SpecRegistry == Init /\ [][NextRegistry]_vars

\* A caller of a bare registry keeps one sink registered at a time, each
\* under a name of its own, and publishes record after record; the sink's
\* publish succeeds or throws.
NextRing ==
  \/ \E t \in Tasks, n \in TransportNames :
       /\ Quiescent
       /\ transports = <<>>
       /\ \A l \in 1..Len(lcs) : lcs[l].name # n
       /\ StartRegister(t, n, "none", NoCaps, "registry")
       /\ UNCHANGED connVars
  \/ \E t \in Tasks : RegisterFactoryDone(t)
  \/ \E t \in Tasks, n \in TransportNames :
       /\ Quiescent
       /\ MapIndex(transports, n) # 0
       /\ StartRemove(t, n, "registry")
       /\ UNCHANGED connVars
  \/ \E t \in Tasks :
       /\ Quiescent
       /\ transports # <<>>
       /\ BeginPublish(t, [NoRecord EXCEPT !.level = "info"], "registry")
       /\ UNCHANGED connVars
  \/ \E t \in Tasks : PublishSettled(t)

SpecRing == Init /\ [][NextRing]_vars

\* Two sinks are registered with a bare registry: the publish of "a" always
\* succeeds, the publish of "b" throws every time.  Records are emitted,
\* their fan-outs overlapping, up to the capacity of the failure history.
HealthySink == "a"
ErroringSink == "b"

InFlight == {t \in Tasks : tasks[t].op = "publish" /\ tasks[t].pc # "done"}

NextAccounting ==
  \/ \E t \in Tasks, n \in {HealthySink, ErroringSink}, f \in BOOLEAN :
       /\ Quiescent
       /\ MapIndex(transports, n) = 0
       /\ StartRegister(t, n, "none", [flush |-> f, shutdown |-> FALSE], "registry")
       /\ UNCHANGED connVars
  \/ \E t \in Tasks :
       /\ RegisterFactoryDone(t)
       /\ tasks'[t].status = "resolved"
  \/ \E t \in Tasks :
       /\ Len(transports) = 2
       /\ Len(failures) + Cardinality(InFlight) < MAX_FAILURES
       /\ BeginPublish(t, [NoRecord EXCEPT !.level = "info"], "registry")
       /\ UNCHANGED connVars
  \/ \E t \in Tasks :
       /\ PublishSettled(t)
       /\ LET r == tasks'[t].results[Len(tasks'[t].results)]
          IN r.succeeded <=> tasks[t].name = HealthySink
  \/ \E t \in Tasks : PublishFlushSettled(t)

SpecAccounting == Init /\ [][NextAccounting]_vars

\* The registrations a plan is built from: up to MaxPlugins of them, each
\* named by its place in the list, of either stage, with or without an
\* order and an enabled flag.
PluginOrders == {<<>>, <<-1>>, <<0>>, <<1>>}
PluginShapes ==
  [stage : {"before", "after"}, order : PluginOrders,
   enabled : {<<>>, <<TRUE>>, <<FALSE>>}]

PluginLists ==
  UNION {{[i \in 1..n |-> [name |-> i, stage |-> f[i].stage,
                           order |-> f[i].order, enabled |-> f[i].enabled]] :
            f \in [1..n -> PluginShapes]} : n \in 0..MaxPlugins}

\* A list of plugin registrations is in the configuration.
InitHooks ==
  /\ transports = <<>>
  /\ failures = <<>>
  /\ lcs = <<>>
  /\ tasks = [t \in Tasks |-> IdleTask]
  /\ state = "running"
  /\ \E plugins \in PluginLists : config = [DefaultConfig EXCEPT !.plugins = plugins]
  /\ context = "initial"
  /\ loggers = {}
  /\ lastResult = "none"

\* The plan is built and its before-hooks or its after-hooks are run, once.
NextHooks ==
  \/ \E t \in Tasks :
       /\ \A u \in Tasks : tasks[u].op = "idle"
       /\ StartBeforeHooks(t)
  \/ \E t \in Tasks : BeforeHookSettled(t)
  \/ \E t \in Tasks :
       /\ \A u \in Tasks : tasks[u].op = "idle"
       /\ StartAfterHooks(t)
  \/ \E t \in Tasks : AfterHookSettled(t)

SpecHooks == InitHooks /\ [][NextHooks]_vars

\* The records a serializer run is given: message, bindings, context and
\* metadata, the metadata holding a number, a nested object, an array of up
\* to MaxTokens elements and a `data` object with an object of its own.
InputHeap(tokens) ==
  << PlainObject([k \in {"message", "bindings", "context", "metadata"} |->
                    CASE k = "message" -> Num(1)
                      [] k = "bindings" -> Ref(2)
                      [] k = "context" -> Ref(3)
                      [] OTHER -> Ref(4)]),
     PlainObject(NoProps),
     PlainObject([k \in {"requestId"} |-> Num(2)]),
     PlainObject([k \in {"count", "user", "tokens", "data"} |->
                    CASE k = "count" -> Num(3)
                      [] k = "user" -> Ref(5)
                      [] k = "tokens" -> Ref(6)
                      [] OTHER -> Ref(7)]),
     PlainObject([k \in {"email"} |-> Num(4)]),
     ArrayObject([i \in 1..tokens |-> Num(10 + i)]),
     PlainObject([k \in {"secret", "inner"} |->
                    IF k = "secret" THEN Num(5) ELSE Ref(8)]),
     PlainObject([k \in {"pin"} |-> Num(6)]) >>

\* The paths rules are keyed by, as getPathSegments (139-141) splits them.
RulePaths ==
  { <<"message">>,
    <<"metadata", "count">>,
    <<"metadata", "count", "value">>,
    <<"metadata", "absent">>,
    <<"metadata", "missing", "leaf">>,
    <<"metadata", "user", "email">>,
    <<"metadata", "tokens", "1">>,
    <<"metadata", "data", "secret">>,
    <<"metadata", "data", "inner", "pin">> }

RuleShapes ==
  [key : RulePaths, action : {"none", "redact", "replace"}, throws : BOOLEAN]

\* Serializer maps: up to MaxRules rules, one per key at most.
SerializerMaps ==
  UNION {{m \in [1..n -> RuleShapes] :
            \A i, j \in 1..n : i # j => m[i].key # m[j].key} :
         n \in 0..MaxRules}

\* A serializer map is in the configuration.
InitSerializers ==
  /\ transports = <<>>
  /\ failures = <<>>
  /\ lcs = <<>>
  /\ tasks = [t \in Tasks |-> IdleTask]
  /\ state = "running"
  /\ \E serializers \in SerializerMaps :
       config = [DefaultConfig EXCEPT !.serializers = serializers]
  /\ context = "initial"
  /\ loggers = {}
  /\ lastResult = "none"

\* The serializers are run on a record, once.
NextSerializers ==
  \/ \E t \in Tasks, tokens \in 0..MaxTokens :
       /\ \A u \in Tasks : tasks[u].op = "idle"
       /\ StartSerializers(t, InputHeap(tokens), Ref(1))
  \/ \E t \in Tasks : SerializerRuleDone(t)

SpecSerializers == InitSerializers /\ [][NextSerializers]_vars

\* The contexts of a run: the configured initial context, the distinct
\* contexts the runWithContext calls are given, and the patches of the
\* top level (0) and of each call.
InitialContext == [k \in {"region"} |-> 0]
ScopeOf(t) == [k \in {"requestId"} |-> t]
PatchOf(who) == [k \in {"patch"} |-> who]

InitContext ==
  /\ transports = <<>>
  /\ failures = <<>>
  /\ lcs = <<>>
  /\ tasks = [t \in Tasks |-> IdleTask]
  /\ state = "running"
  /\ config = DefaultConfig
  /\ \E propagate \in BOOLEAN : context = ContextManager(InitialContext, propagate)
  /\ loggers = {}
  /\ lastResult = "none"

\* The application sets its own context up, then makes runWithContext
\* calls whose callbacks may overlap.
NextContext ==
  \/ \E inside \in {"set", "reset"} :
       /\ \A u \in Tasks : tasks[u].op = "idle"
       /\ TopLevelContext(inside, PatchOf(0))
  \/ \E t \in Tasks, inside \in {"none", "set", "reset"},
        outcome \in {"returns", "throws", "awaits"} :
       StartRunWithContext(t, ScopeOf(t), inside, PatchOf(t), outcome)
  \/ \E t \in Tasks, inside \in {"none", "set", "reset"},
        outcome \in {"returns", "throws", "awaits"} :
       ContextResumed(t, inside, PatchOf(t), outcome)

SpecContext == InitContext /\ [][NextContext]_vars

\* The initial contexts configure is given.
ConfiguredContexts == {InitialContext, [k \in {"region", "tenant"} |-> 1]}

\* The application sets its context while no callback is pending,
\* reconfigures the manager at any time and makes runWithContext calls one
\* after the other; configure, setContext and resetContext are called at
\* the top level, outside any scope.
NextConfigure ==
  \/ \E inside \in {"set", "reset"} :
       /\ Quiescent
       /\ TopLevelContext(inside, PatchOf(0))
  \/ \E initial \in ConfiguredContexts, propagate \in BOOLEAN, kept \in BOOLEAN :
       Configure(initial, propagate, kept)
  \/ \E t \in Tasks, inside \in {"none", "set", "reset"},
        outcome \in {"returns", "throws", "awaits"} :
       /\ Quiescent
       /\ StartRunWithContext(t, ScopeOf(t), inside, PatchOf(t), outcome)
  \/ \E t \in Tasks, inside \in {"none", "set", "reset"},
        outcome \in {"returns", "throws", "awaits"} :
       ContextResumed(t, inside, PatchOf(t), outcome)

SpecConfigure == InitContext /\ [][NextConfigure]_vars

\* The levels an application sets on the connector and logs at.
ConnectorLevels == {"debug", "warn", "silent"}
LoggedLevels == {"debug", "info", "error"}

\* updateConfig({ level })
LevelInput(level) ==
  [supplies |-> {"level"}, level |-> level, transports |-> <<>>,
   plugins |-> FALSE, serializers |-> FALSE, malformed |-> {}]

\* An application registers sinks without a threshold, changes the
\* connector's level with setLevel and updateConfig, and logs records of
\* several levels through the root logger, one call at a time, and shuts
\* the connector down in the end.
NextLevel ==
  \/ GetRootLogger
  \/ \E t \in Tasks, n \in SinkNames, caps \in SinkCaps :
       /\ Quiescent
       /\ lcs = <<>>
       /\ RegisterTransport(t, n, "none", caps)
  \/ \E level \in ConnectorLevels : SetLevel(level)
  \/ \E level \in ConnectorLevels : UpdateConfig(LevelInput(level))
  \/ \E t \in Tasks, lvl \in LoggedLevels : Quiescent /\ Log(t, "root", lvl)
  \/ \E t \in Tasks : Quiescent /\ Shutdown(t)
  \/ \E t \in Tasks : RegisterFactoryDone(t)
  \/ \E t \in Tasks : PublishSettled(t)
  \/ \E t \in Tasks : PublishFlushSettled(t)
  \/ \E t \in Tasks : ShutdownSettled(t)
  \/ \E t \in Tasks : BackendFlushSettled(t)
  \/ \E t \in Tasks : BackendCloseSettled(t)

SpecLevel == Init /\ [][NextLevel]_vars

\* The transports a configuration declares and the names that have a
\* factory in options.transportFactories.
DeclaredLists == {<<>>, <<"a">>, <<"b">>, <<"a", "b">>}
FactorySets == {{}, {"a"}, {"a", "b"}}

\* What the application passes to updateConfig: a level, a list of
\* declared transports, or something invalid.
TransportsInput(list) ==
  [supplies |-> {"transports"}, level |-> "info", transports |-> list,
   plugins |-> FALSE, serializers |-> FALSE, malformed |-> {}]

MalformedInput(field) ==
  [supplies |-> {field}, level |-> "info", transports |-> <<"a">>,
   plugins |-> TRUE, serializers |-> TRUE, malformed |-> {field}]

ValidInputs ==
  {LevelInput("debug")} \cup {TransportsInput(list) : list \in {<<"a">>, <<"b">>}}

InvalidInputs ==
  {LevelInput("verbose"), TransportsInput(<<"">>)}
    \cup {MalformedInput(field) :
            field \in {"transports", "plugins", "serializers", "context"}}

\* The registrations the application passes to registerTransport, as name
\* and level: two valid ones, one without a name, one with an unknown
\* level.
DynamicRegistrations ==
  {<<"a", "none">>, <<"b", "none">>, <<"", "none">>, <<"a", "verbose">>}

\* createConnector (85-157) with declared transports and factories and
\* without builtin transports: the configuration is normalized and
\* registerConfiguredTransports is started, which invokes the factory of
\* the first declared transport that has one.
InitDeclared ==
  /\ transports = <<>>
  /\ failures = <<>>
  /\ lcs = <<>>
  /\ state = "running"
  /\ \E declared \in DeclaredLists, factories \in FactorySets :
       /\ config = [DefaultConfig EXCEPT !.transports = declared,
                                         !.factories = factories]
       /\ tasks = [t \in Tasks |->
            IF t = 1 /\ planned(config) # <<>>
              THEN ConfiguredRun(planned(config),
                                 {declared[i] : i \in 1..Len(declared)})
              ELSE IdleTask]
  /\ context = "initial"
  /\ loggers = {}
  /\ lastResult = "returned"

\* The application reconfigures the connector and registers transports of
\* its own, one call at a time, each after the background registration has
\* come to rest, and shuts the connector down once at any time, also
\* while a registration is in flight.
NextDeclared ==
  \/ \E next \in ValidInputs \cup InvalidInputs : OneAtATime /\ UpdateConfig(next)
  \/ \E t \in Tasks, r \in DynamicRegistrations, caps \in SinkCaps :
       OneAtATime /\ RegisterTransport(t, r[1], r[2], caps)
  \/ \E t \in Tasks : state # "stopping" /\ Shutdown(t)
  \/ \E t \in Tasks : RegisterFactoryDone(t)
  \/ \E t \in Tasks : RegisterShutdownDone(t)
  \/ \E t \in Tasks : ShutdownSettled(t)
  \/ \E t \in Tasks : BackendFlushSettled(t)
  \/ \E t \in Tasks : BackendCloseSettled(t)

SpecDeclared == InitDeclared /\ [][NextDeclared]_vars

\* A flush call is in flight.
Flushing == \E t \in Tasks : tasks[t].op = "flush" /\ Active(t)

\* An application registers sinks under distinct names, one at a time,
\* logs through the root logger and calls flush, one flush at a time and
\* no log call while a flush is in flight: every fan-out in flight during a
\* flush was started before that flush was called. In the end it shuts the
\* connector down.
NextFlush ==
  \/ GetRootLogger
  \/ \E t \in Tasks, n \in TransportNames, f \in BOOLEAN :
       /\ Quiescent
       /\ MapIndex(transports, n) = 0
       /\ RegisterTransport(t, n, "none", [flush |-> f, shutdown |-> TRUE])
  \/ \E t \in Tasks : RegisterFactoryDone(t)
  \/ \E t \in Tasks, lvl \in EmitLevels : ~Flushing /\ Log(t, "root", lvl)
  \/ \E t \in Tasks : ~Flushing /\ Flush(t)
  \/ \E t \in Tasks : Quiescent /\ Shutdown(t)
  \/ \E t \in Tasks : PublishSettled(t)
  \/ \E t \in Tasks : PublishFlushSettled(t)
  \/ \E t \in Tasks : FlushSettled(t)
  \/ \E t \in Tasks : ShutdownSettled(t)
  \/ \E t \in Tasks : BackendFlushSettled(t)
  \/ \E t \in Tasks : BackendCloseSettled(t)

SpecFlush == Init /\ [][NextFlush]_vars

(* ------------------------------ claims --------------------------------- *)

\* The severity order as the specification states it:
\* trace < debug < info < warn < error < fatal < silent.
SeverityOrder == <<"trace", "debug", "info", "warn", "error", "fatal", "silent">>

RankIn(order, level) == CHOOSE i \in 1..Len(order) : order[i] = level

\* rank(L) >= rank(T), or no threshold at all.
MeetsThreshold(threshold, level) ==
  \/ threshold = "none"
  \/ RankIn(SeverityOrder, level) >= RankIn(SeverityOrder, threshold)

RECURSIVE EligibleNames(_, _)
\* The names of the entries of map whose threshold the level meets, in the
\* Map's order.
EligibleNames(map, level) ==
  IF map = <<>> THEN <<>>
  ELSE IF MeetsThreshold(Head(map).level, level)
         THEN <<Head(map).name>> \o EligibleNames(Tail(map), level)
         ELSE EligibleNames(Tail(map), level)

ResultNames(results) == [i \in 1..Len(results) |-> results[i].transportName]

SettledPublish(t) == tasks[t].op = "publish" /\ tasks[t].pc = "done"

\* C1: publish isolates sink failures. Whatever a sink's publish and flush
\* do, a settled publish has resolved, never rejected, with one result per
\* eligible sink, the failing sinks' entries carrying the thrown error, and
\* every eligible sink has had its publish invoked.
C1_PublishIsolatesFailures ==
  \A t \in Tasks :
    SettledPublish(t) =>
      /\ tasks[t].status = "resolved"
      /\ tasks[t].invoked = EligibleNames(transports, tasks[t].record.level)
      /\ ResultNames(tasks[t].results) = tasks[t].invoked
      /\ \A i \in 1..Len(tasks[t].results) :
           ~tasks[t].results[i].succeeded => tasks[t].results[i].error = "boom"

\* C2: severity filtering. A publish that has settled has invoked exactly
\* the registered transports that have no threshold or whose threshold T
\* has rank(L) >= rank(T) for the record's level L, and its result list has
\* an entry for each of them and for no filtered transport.
C2_SeverityFiltering ==
  \A t \in Tasks :
    SettledPublish(t) =>
      /\ tasks[t].invoked = EligibleNames(transports, tasks[t].record.level)
      /\ ResultNames(tasks[t].results) = tasks[t].invoked

\* C3: per-record pipeline order. Every record a log call has handed to a
\* transport's publish has been through all enabled before-hooks and all
\* serializer rules first: no transport receives the pre-hook or the
\* pre-redaction record.
C3_PipelineBeforeFanout ==
  \A t \in Tasks :
    (tasks[t].op = "publish" /\ tasks[t].via = "log" /\ tasks[t].invoked # <<>>) =>
      /\ tasks[t].record.hooked
      /\ tasks[t].record.redacted

\* A log call starts a fan-out that has a sink's publish to await.
LogStartsFanout(t) ==
  /\ tasks[t].status # "pending"
  /\ tasks'[t].status = "pending"
  /\ tasks'[t].via = "log"

\* C4: a log call never throws because of a downstream failure. A log call
\* on a running connector returns normally, whatever the sinks' publish and
\* flush do afterwards; no failure of the fan-out it started is left
\* unhandled; and ConnectorStoppedError is only ever thrown by a connector
\* that is stopping or stopped.
C4_LogNeverThrowsDownstream ==
  /\ [](/\ lastResult \in {"none", "returned", "ConnectorStoppedError"}
        /\ lastResult = "ConnectorStoppedError" => state # "running"
        /\ \A t \in Tasks : tasks[t].via = "log" => tasks[t].status # "rejected")
  /\ [][\A t \in Tasks :
          LogStartsFanout(t) => (state = "running" /\ lastResult' = "returned")]_vars

\* C4's case: the fan-out of a log call has ended because a sink's publish
\* failed and its recovery flush threw, and the connector is still running
\* with the last call having returned normally.
C4_Witness ==
  /\ state = "running"
  /\ lastResult = "returned"
  /\ \E t \in Tasks :
       /\ tasks[t].via = "log" /\ tasks[t].pc = "done"
       /\ tasks[t].status = "caught"
       /\ tasks[t].flushed # <<>>
       /\ \E i \in 1..Len(tasks[t].results) : ~tasks[t].results[i].succeeded

\* A step of one of the guarded operations: the logging and the mutating
\* operations of the connector and of its loggers.
GuardedCall ==
  \/ GetRootLogger
  \/ \E b \in BOOLEAN : CreateLogger(b)
  \/ \E lg \in LoggerNames : Bind(lg)
  \/ \E t \in Tasks, lg \in LoggerNames, lvl \in EmitLevels : Log(t, lg, lvl)
  \/ SetLevel("debug")
  \/ \E lg \in LoggerNames : LoggerSetLevel(lg, "debug")
  \/ \E next \in UpdateInputs : UpdateConfig(next)
  \/ SetContext
  \/ ResetContext
  \/ RunWithContext
  \/ \E t \in Tasks, n \in SinkNames, caps \in SinkCaps :
       RegisterTransport(t, n, "none", caps)
  \/ \E t \in Tasks, n \in SinkNames : RemoveTransport(t, n)
  \/ \E t \in Tasks : Flush(t)
  \/ \E t \in Tasks, lg \in LoggerNames : LoggerFlush(t, lg)

\* C5: use-after-shutdown guard. Every step of a logging or mutating
\* operation taken while the connector is stopping or stopped ends in
\* ConnectorStoppedError and changes nothing: no task is started (so no
\* transport's publish is invoked) and config, context, the registry and
\* the loggers stay as they are; a read-only query returns in any state.
C5_UseAfterShutdownGuard ==
  [][/\ (state \in {"stopping", "stopped"} /\ GuardedCall) =>
          /\ lastResult' = "ConnectorStoppedError"
          /\ tasks' = tasks
          /\ transports' = transports /\ failures' = failures /\ lcs' = lcs
          /\ config' = config /\ context' = context
          /\ loggers' = loggers /\ state' = state
     /\ Query => lastResult' = "returned"]_vars

\* C5's case: a guarded operation has failed with ConnectorStoppedError on
\* a connector that is stopping with a sink still registered, the
\* application holding a logger it obtained while the connector ran.
C5_Witness ==
  /\ state = "stopping"
  /\ lastResult = "ConnectorStoppedError"
  /\ transports # <<>>
  /\ "root" \in loggers

\* C6: the state machine is one-way. Every step that changes the state
\* takes it from running to stopping or from stopping to stopped.
C6_StateOneWay ==
  [][state' # state =>
       \/ state = "running" /\ state' = "stopping"
       \/ state = "stopping" /\ state' = "stopped"]_vars

\* C6's case: the connector is stopped after two overlapping shutdown calls
\* have both resolved.
C6_Witness ==
  /\ state = "stopped"
  /\ \A t \in Tasks : /\ tasks[t].op = "shutdown"
                      /\ tasks[t].via = "connector"
                      /\ tasks[t].status = "resolved"

\* C7: shutdown completes. Once shutdown has been called, with every
\* awaited call settling, the connector reaches the stopped state.
C7_ShutdownCompletes == (state = "stopping") ~> (state = "stopped")

\* C8: shutdown is idempotent. A shutdown call made when the connector is
\* already stopping or stopped returns without throwing and invokes no
\* shutdown of a sink whose shutdown has been invoked before.
C8_ShutdownIdempotent ==
  [][\A t \in Tasks :
       (state \in {"stopping", "stopped"} /\ Shutdown(t)) =>
          /\ lastResult' = "returned"
          /\ \A l \in 1..Len(lcs) :
               lcs[l].shutdowns >= 1 => lcs'[l].shutdowns = lcs[l].shutdowns]_vars

NamesDistinct(map) ==
  \A i, j \in 1..Len(map) : map[i].name = map[j].name => i = j

\* A register call resolves in this step.
RegisterResolves(t) ==
  /\ tasks[t].op = "register" /\ tasks[t].status = "pending"
  /\ tasks'[t].status = "resolved"

\* C9: register replaces the entry of the same name atomically. The Map
\* never holds two entries of one name; a register call that finds an entry
\* able to shut down invokes that entry's shutdown exactly once and stores
\* nothing before the await; and when a register call resolves, the one
\* entry of its name is bound to the lifecycle its factory returned, and
\* the lifecycle that was the entry until then, if it can shut down, is the
\* one whose shutdown this call invoked and awaited.
C9_RegisterReplaces ==
  /\ [](NamesDistinct(transports))
  /\ [][\A t \in Tasks :
          /\ RegisterResolves(t) =>
               /\ MapGet(transports', tasks[t].name) = tasks'[t].lc
               /\ tasks'[t].lc # 0
               /\ LET old == MapGet(transports, tasks[t].name)
                  IN (old # 0 /\ lcs[old].caps.shutdown) =>
                       /\ tasks[t].pc = "reg_shutdown"
                       /\ tasks[t].existing = old
                       /\ lcs'[old].shutdowns = lcs[old].shutdowns
          /\ (tasks[t].pc = "reg_factory" /\ tasks'[t].pc = "reg_shutdown") =>
               /\ lcs'[tasks'[t].existing].shutdowns
                    = lcs[tasks'[t].existing].shutdowns + 1
               /\ transports' = transports]_vars

\* C10: two concurrent register calls for one name leave one live
\* lifecycle. Once both have resolved, exactly one of the two lifecycles
\* they created is the registry entry and the other one has had its
\* shutdown invoked.
C10_ConcurrentRegisterLeavesOne ==
  \A t, u \in Tasks :
    ( /\ t # u
      /\ tasks[t].op = "register" /\ tasks[t].status = "resolved"
      /\ tasks[u].op = "register" /\ tasks[u].status = "resolved"
      /\ tasks[t].name = tasks[u].name
      /\ MapGet(transports, tasks[t].name) # tasks[t].lc
      /\ lcs[tasks[t].lc].caps.shutdown ) =>
        /\ MapGet(transports, tasks[t].name) = tasks[u].lc
        /\ lcs[tasks[t].lc].shutdowns >= 1

\* A remove call is made in this step.
RemoveCalled(t) ==
  /\ tasks[t].pc = "done"
  /\ tasks'[t].op = "remove"
  /\ tasks'[t] # tasks[t]

\* The shutdown invocations a step adds to lifecycle l.
ShutdownsAdded(l) == lcs'[l].shutdowns - lcs[l].shutdowns

\* C11: register followed by remove. A remove call of a registered name
\* takes the name out of the transport list and, from the call to the
\* moment it resolves, invokes the shutdown of the lifecycle that register
\* stored exactly once (if it has one) and no other shutdown; a remove of a
\* name that is not registered resolves at once, changes nothing and
\* invokes no shutdown.
C11_RegisterThenRemove ==
  [][\A t \in Tasks :
       /\ RemoveCalled(t) =>
            LET l == MapGet(transports, tasks'[t].name)
            IN /\ MapIndex(transports', tasks'[t].name) = 0
               /\ tasks'[t].existing = l
               /\ \A k \in 1..Len(lcs) :
                    ShutdownsAdded(k) =
                      IF k = l /\ lcs[k].caps.shutdown THEN 1 ELSE 0
               /\ l = 0 => /\ tasks'[t].status = "resolved"
                           /\ transports' = transports
                           /\ failures' = failures
       /\ (tasks[t].op = "remove" /\ tasks[t].status = "pending") =>
            /\ lcs' = lcs
            /\ MapIndex(transports', tasks[t].name) = 0]_vars

\* C11's case: a remove has resolved after shutting down the lifecycle that
\* a register call had stored under its name.
C11_Witness ==
  \E t \in Tasks :
    /\ tasks[t].op = "remove" /\ tasks[t].status = "resolved"
    /\ tasks[t].existing # 0
    /\ lcs[tasks[t].existing].caps.shutdown
    /\ lcs[tasks[t].existing].shutdowns = 1
    /\ MapIndex(transports, tasks[t].name) = 0
    /\ transports # <<>>

\* The sinks of the failure entries of a result list that have a flush
\* method, in the order of the failures.
FlushableFailures(results) ==
  ResultNames(SelectSeq(results,
    LAMBDA r : /\ ~r.succeeded
               /\ lcs[MapGet(transports, r.transportName)].caps.flush))

\* C12: recovery flush on publish failure. At every moment of a fan-out the
\* flushes it has invoked are, in order, one for each failed publish of a
\* sink that has a flush method, and none for a sink whose publish
\* succeeded or that has no flush; and while such a flush is awaited the
\* failure entry of that sink is already the newest of the history.
C12_RecoveryFlush ==
  \A t \in Tasks :
    tasks[t].op = "publish" =>
      /\ tasks[t].flushed = FlushableFailures(tasks[t].results)
      /\ tasks[t].pc = "pub_flush" =>
           /\ failures # <<>>
           /\ failures[Len(failures)].transportName = tasks[t].name
           /\ ~failures[Len(failures)].succeeded

\* C12's case: a fan-out over two sinks has resolved, one sink's publish
\* having failed and been flushed once, the other's having succeeded.
C12_Witness ==
  \E t \in Tasks :
    /\ SettledPublish(t) /\ tasks[t].status = "resolved"
    /\ Len(tasks[t].results) = 2
    /\ Len(tasks[t].flushed) = 1
    /\ \E i, j \in 1..2 : /\ ~tasks[t].results[i].succeeded
                          /\ tasks[t].results[i].transportName = tasks[t].flushed[1]
                          /\ tasks[t].results[j].succeeded

\* C13: registry shutdown is best-effort and then clears everything. Once
\* a shutdown call on the registry has run to its end, whatever the sinks'
\* shutdowns did, every registered sink that can shut down has had its
\* shutdown invoked, and the transport list and the failure history are
\* empty.
C13_ShutdownBestEffort ==
  \A t \in Tasks :
    (tasks[t].op = "shutdown" /\ tasks[t].pc = "done") =>
      /\ \A l \in 1..Len(lcs) : lcs[l].caps.shutdown => lcs[l].shutdowns >= 1
      /\ transports = <<>>
      /\ failures = <<>>

\* The names of the registered sinks that have a flush method, in the
\* Map's order.
FlushableNames(map) ==
  ResultNames(SelectSeq(
    [i \in 1..Len(map) |-> [transportName |-> map[i].name, lc |-> map[i].lc]],
    LAMBDA e : lcs[e.lc].caps.flush))

\* C14: registry flush is best-effort. A flush call that has settled has
\* resolved, whatever the sinks' flushes did, and has invoked the flush of
\* every registered sink that has one, once each, and of no other.
C14_FlushBestEffort ==
  \A t \in Tasks :
    (tasks[t].op = "flush" /\ tasks[t].pc = "done") =>
      /\ tasks[t].status = "resolved"
      /\ tasks[t].flushed = FlushableNames(transports)

\* The awaited publish of a sink settles in this step.
SinkPublishSettles(t) ==
  /\ tasks[t].pc = "pub_await"
  /\ Len(tasks'[t].results) = Len(tasks[t].results) + 1

\* C15: the failure history is a bounded ring. It never holds more than 50
\* entries; each failed publish of a sink puts its failure entry at the end
\* of the history, the oldest entry leaving when there are 50 already, all
\* others keeping their order; a successful publish leaves the history as
\* it is.
C15_FailureRing ==
  /\ [](Len(failures) <= 50)
  /\ [][\A t \in Tasks :
          SinkPublishSettles(t) =>
            LET r == tasks'[t].results[Len(tasks'[t].results)]
            IN /\ r.transportName = tasks[t].name
               /\ failures' =
                    IF r.succeeded THEN failures
                    ELSE IF Len(failures) < 50 THEN Append(failures, r)
                    ELSE Append(Tail(failures), r)]_vars

\* C15's case: the history is full, holds failures of two sinks, and the
\* last publish has failed.
C15_Witness ==
  /\ Len(failures) = 50
  /\ failures[1].transportName # failures[50].transportName
  /\ \E t \in Tasks :
       /\ SettledPublish(t)
       /\ tasks[t].results # <<>>
       /\ ~tasks[t].results[1].succeeded

\* C16: a transport whose threshold is silent is fully muted. No fan-out,
\* whatever the level of its record, invokes the publish of a transport
\* registered with threshold silent.
C16_SilentMutes ==
  \A t \in Tasks :
    tasks[t].op = "publish" =>
      \A i \in 1..Len(tasks[t].invoked) :
        \A k \in 1..Len(transports) :
          transports[k].name = tasks[t].invoked[i] => transports[k].level # "silent"

\* C17: after-hooks observe the complete fan-out. For every record logged
\* while plugins are enabled (a record the enabled hooks have not been run
\* on has hooked = FALSE), once its fan-out has collected the results of
\* all eligible transports the after-hooks have run exactly once, with the
\* final record and the full result list of that fan-out.
C17_AfterHooksObserveFanout ==
  \A t \in Tasks :
    ( /\ tasks[t].op = "publish" /\ tasks[t].via = "log"
      /\ tasks[t].pc = "done" /\ tasks[t].status = "resolved"
      /\ ~tasks[t].record.hooked ) =>
        afterHookCalls(tasks[t]) =
          << [record |-> [tasks[t].record EXCEPT !.hooked = TRUE, !.redacted = TRUE],
              results |-> tasks[t].results] >>

\* What the listed sinks' getDiagnostics may do when a snapshot is built.
Outcomes == [1..Len(transports) -> DiagOutcomes]

\* The diagnostics snapshot of the current state.
Snapshot(d) == buildConnectorDiagnosticsSnapshot(getDiagnostics, d)

\* The failureCount the snapshot reports for the sink of that name.
Reported(snapshot, n) ==
  LET i == CHOOSE i \in 1..Len(snapshot.transports) :
             snapshot.transports[i].name = n
  IN snapshot.transports[i].failureCount

\* The entries of a fan-out's result list that belong to the sink.
ResultsOf(t, n) ==
  {i \in 1..Len(tasks[t].results) : tasks[t].results[i].transportName = n}

\* C18: failure accounting end to end. With one sink that always succeeds
\* and one that throws on every publish, each record's fan-out accounts for
\* exactly one failure of the erroring sink, the snapshot's failureCount of
\* the erroring sink goes up by exactly one with each of them and with
\* nothing else (so that it is k after k records, up to the cap of 50), the
\* healthy sink's failureCount stays 0, and the status is degraded as soon
\* as a record has been emitted.
C18_FailureAccounting ==
  /\ [](Len(transports) = 2 =>
          \A d \in Outcomes :
            /\ Reported(Snapshot(d), HealthySink) = 0
            /\ Reported(Snapshot(d), ErroringSink) > 0 =>
                 Snapshot(d).status = "degraded")
  /\ [](\A t \in Tasks :
          SettledPublish(t) =>
            /\ Cardinality(ResultsOf(t, ErroringSink)) = 1
            /\ \A i \in ResultsOf(t, ErroringSink) : ~tasks[t].results[i].succeeded)
  /\ [][Len(transports) = 2 =>
          LET before == Reported(Snapshot([i \in 1..2 |-> "absent"]), ErroringSink)
              after == Reported(Snapshot([i \in 1..2 |-> "absent"])', ErroringSink)
          IN IF \E t \in Tasks : SinkPublishSettles(t) /\ tasks[t].name = ErroringSink
               THEN after = before + 1
               ELSE after = before]_vars

\* C18's case: 50 records have gone through both sinks and every fan-out
\* has completed.
C18_Witness ==
  /\ Quiescent
  /\ Len(transports) = 2
  /\ Reported(Snapshot([i \in 1..2 |-> "absent"]), ErroringSink) = MAX_FAILURES
  /\ Reported(Snapshot([i \in 1..2 |-> "absent"]), HealthySink) = 0
  /\ Snapshot([i \in 1..2 |-> "absent"]).status = "degraded"
  /\ \E t \in Tasks : SettledPublish(t) /\ Len(tasks[t].results) = 2

\* C19: health computation. In a diagnostics snapshot a transport is
\* healthy iff the failure history holds no entry of its name, its
\* getDiagnostics (when it has one) reports isHealthy, and the call of
\* getDiagnostics did not throw; the status is healthy iff every listed
\* transport is healthy, and degraded otherwise.
C19_HealthComputation ==
  \A d \in Outcomes :
    LET snapshot == Snapshot(d)
    IN /\ Len(snapshot.transports) = Len(transports)
       /\ \A i \in 1..Len(transports) :
            snapshot.transports[i].healthy <=>
              /\ \A j \in 1..Len(failures) :
                   failures[j].transportName # transports[i].name
              /\ d[i] # "unhealthy"
              /\ d[i] \notin {"throws", "throwsUndefined"}
       /\ snapshot.status \in {"healthy", "degraded"}
       /\ snapshot.status = "healthy" <=>
            \A i \in 1..Len(transports) : snapshot.transports[i].healthy

\* The order value of a registration; a missing order counts as 0.
OrderValue(registration) ==
  IF Len(registration.order) = 0 THEN 0 ELSE registration.order[1]

\* The registrations, by their place in the list, whose before-hook is to
\* run.
EnabledBefore(registrations) ==
  {i \in 1..Len(registrations) :
     /\ registrations[i].stage = "before"
     /\ registrations[i].enabled # <<FALSE>>}

\* C20: before-hook ordering. buildPluginExecutionPlan followed by
\* runBeforeHooks calls only enabled before-hooks (a hook registered with
\* enabled = false is never called), each at most once, in ascending order
\* value with a missing order counting as 0 and hooks of equal order in
\* registration order; when the run has completed every enabled before-hook
\* has been called.
C20_BeforeHookOrdering ==
  \A t \in Tasks :
    tasks[t].op = "runBeforeHooks" =>
      LET called == tasks[t].invoked
          registrations == config.plugins
      IN /\ \A j \in 1..Len(called) : called[j] \in EnabledBefore(registrations)
         /\ \A j, k \in 1..Len(called) :
              j < k =>
                \/ OrderValue(registrations[called[j]]) < OrderValue(registrations[called[k]])
                \/ /\ OrderValue(registrations[called[j]]) = OrderValue(registrations[called[k]])
                   /\ called[j] < called[k]
         /\ tasks[t].pc = "done" =>
              {called[j] : j \in 1..Len(called)} = EnabledBefore(registrations)

\* C20's case: a run over three registrations has completed; one of them
\* is a disabled before-hook, the other two were called in the reverse of
\* their registration order.
C20_Witness ==
  \E t \in Tasks :
    /\ tasks[t].op = "runBeforeHooks"
    /\ tasks[t].pc = "done"
    /\ Len(config.plugins) = 3
    /\ \E i \in 1..3 : /\ config.plugins[i].stage = "before"
                        /\ config.plugins[i].enabled = <<FALSE>>
    /\ Len(tasks[t].invoked) = 2
    /\ tasks[t].invoked[1] > tasks[t].invoked[2]

\* The registrations, by their place in the list, whose after-hook is to
\* run.
EnabledAfter(registrations) ==
  {i \in 1..Len(registrations) :
     /\ registrations[i].stage = "after"
     /\ registrations[i].enabled # <<FALSE>>}

\* C21: after-hook ordering. The enabled after-hooks are executed in
\* descending order value, the hook with the highest order first: of two
\* after-hooks called in one run, the one called later never has the
\* higher order value.
C21_AfterHooksDescending ==
  \A t \in Tasks :
    tasks[t].op = "runAfterHooks" =>
      LET called == tasks[t].invoked
          registrations == config.plugins
      IN /\ \A j \in 1..Len(called) : called[j] \in EnabledAfter(registrations)
         /\ \A j, k \in 1..Len(called) :
              j < k => OrderValue(registrations[called[j]]) >=
                         OrderValue(registrations[called[k]])

\* The record a run works with once its j-th hook has settled: what the
\* next hook is called with, or, after the last hook, what the run returns.
RecordAfter(task, j) ==
  IF j < Len(task.calls) THEN task.calls[j + 1] ELSE currentRecord(task)

\* C22: the before-hook mutation channel. When a before-hook calls
\* setRecord(next) and returns, the next hook of the run is called with
\* that record, and so is every later one until another hook sets a record;
\* runBeforeHooks returns the record of the last successful setRecord; the
\* record object passed in to runBeforeHooks keeps its content.
C22_MutationChannel ==
  \A t \in Tasks :
    tasks[t].op = "runBeforeHooks" =>
      /\ tasks[t].input = BaseRecord
      /\ tasks[t].calls # <<>> => tasks[t].calls[1] = BaseRecord
      /\ \A j \in 1..Len(tasks[t].did) :
           RecordAfter(tasks[t], j) =
             IF tasks[t].did[j].set /\ ~tasks[t].did[j].threw
               THEN Append(tasks[t].calls[j], tasks[t].invoked[j])
               ELSE tasks[t].calls[j]

\* C22's case: a run of three hooks has returned; the first hook set a
\* record, the second did not, the third was called with the first's
\* record and set one of its own, which the run returned.
C22_Witness ==
  \E t \in Tasks :
    /\ tasks[t].op = "runBeforeHooks"
    /\ tasks[t].pc = "done"
    /\ Len(tasks[t].did) = 3
    /\ tasks[t].did[1].set /\ ~tasks[t].did[1].threw
    /\ ~tasks[t].did[2].set
    /\ tasks[t].did[3].set /\ ~tasks[t].did[3].threw
    /\ tasks[t].calls[3] = Append(BaseRecord, tasks[t].invoked[1])
    /\ Len(currentRecord(tasks[t])) = 3

\* The hooks of a run that threw, by their place in the run.
Threw(task) == {j \in 1..Len(task.did) : task.did[j].threw}

\* C23: hook failure isolation. runBeforeHooks and runAfterHooks never
\* throw; a hook that throws or rejects leaves the working record as it was
\* when that hook was called, even if it called setRecord; every hook of
\* the plan is still executed, once; executed is the number of hooks in the
\* plan, failed the number of hooks that threw and the length of errors,
\* and errors names the failed hooks in execution order.
C23_HookFailureIsolation ==
  \A t \in Tasks :
    tasks[t].op \in {"runBeforeHooks", "runAfterHooks"} =>
      LET task == tasks[t]
          plan == IF task.op = "runBeforeHooks"
                    THEN EnabledBefore(config.plugins)
                    ELSE EnabledAfter(config.plugins)
      IN /\ task.status # "rejected"
         /\ \A j \in Threw(task) : RecordAfter(task, j) = task.calls[j]
         /\ \A j, k \in 1..Len(task.invoked) :
              j # k => task.invoked[j] # task.invoked[k]
         /\ task.failed = Cardinality(Threw(task))
         /\ task.failed = Len(task.results)
         /\ \E pos \in [1..Len(task.results) -> 1..Len(task.did)] :
              /\ \A a, b \in 1..Len(task.results) : a < b => pos[a] < pos[b]
              /\ \A a \in 1..Len(task.results) :
                   /\ pos[a] \in Threw(task)
                   /\ task.results[a].name = task.invoked[pos[a]]
         /\ task.pc = "done" =>
              /\ task.status = "resolved"
              /\ {task.invoked[j] : j \in 1..Len(task.invoked)} = plan
              /\ task.executed = Cardinality(plan)

\* C23's case: a run of three before-hooks has returned; the second hook
\* called setRecord and then threw, the other two ran.
C23_Witness ==
  \E t \in Tasks :
    /\ tasks[t].op = "runBeforeHooks"
    /\ tasks[t].pc = "done"
    /\ tasks[t].executed = 3
    /\ tasks[t].did[2].set /\ tasks[t].did[2].threw
    /\ ~tasks[t].did[1].threw /\ ~tasks[t].did[3].threw
    /\ tasks[t].failed = 1

\* C24: runSerializers never modifies its input. With a non-empty
\* serializer map, whatever the paths and actions of the rules, the record
\* object passed in and every object reachable from it are after the run
\* (and at every point of it) what they were before.
C24_InputNeverModified ==
  \A t \in Tasks :
    tasks[t].op = "runSerializers" =>
      \A id \in 1..Len(tasks[t].before) : tasks[t].heap[id] = tasks[t].before[id]

\* The rule a serializer run is about to process.
RuleAt(t) == config.serializers[tasks[t].cursor + 1]

\* A round of a serializer run's loop happens in this step.
RuleRound(t) ==
  /\ tasks[t].op = "runSerializers"
  /\ tasks[t].pc = "ser_rule"
  /\ tasks'[t] # tasks[t]

\* An intermediate segment of the path is missing or is not a container:
\* some proper, non-empty prefix of the path leads to no object or array.
Unresolvable(task, key) ==
  \E n \in 1..(Len(key) - 1) :
    ~isContainer(task.heap, getByPath(task.heap, task.current, SubSeq(key, 1, n)))

\* C25: unresolvable serializer path. When an intermediate segment of a
\* rule's path is missing or is not a container, the rule's callback is not
\* called, the record is unchanged, failed, redacted and replaced (and the
\* errors) stay as they were, and the run goes on to the remaining rules,
\* every rule of the map having had its round when the run returns.
C25_UnresolvablePathSkipped ==
  /\ [][\A t \in Tasks :
          RuleRound(t) /\ Unresolvable(tasks[t], RuleAt(t).key) =>
            /\ tasks'[t].called = tasks[t].called
            /\ tasks'[t].heap = tasks[t].heap
            /\ tasks'[t].current = tasks[t].current
            /\ tasks'[t].failed = tasks[t].failed
            /\ tasks'[t].redacted = tasks[t].redacted
            /\ tasks'[t].replaced = tasks[t].replaced
            /\ tasks'[t].results = tasks[t].results
            /\ tasks'[t].cursor = tasks[t].cursor + 1
            /\ tasks'[t].status # "rejected"]_vars
  /\ [](\A t \in Tasks :
          tasks[t].op = "runSerializers" /\ tasks[t].pc = "done" =>
            tasks[t].executed = Len(config.serializers))

\* C25's case: a run of two rules has returned; the first rule, keyed
\* metadata.count.value where metadata.count is a number, would have
\* replaced; only the second rule's callback was called.
C25_Witness ==
  \E t \in Tasks :
    /\ tasks[t].op = "runSerializers"
    /\ tasks[t].pc = "done"
    /\ Len(config.serializers) = 2
    /\ config.serializers[1].key = <<"metadata", "count", "value">>
    /\ config.serializers[1].action = "replace"
    /\ tasks[t].called = <<config.serializers[2].key>>
    /\ tasks[t].executed = 2

\* C26: replace() creates missing containers. For a rule whose path has a
\* missing intermediate segment and whose callback calls replace(value),
\* the round leaves the record with the value at the rule's path, the
\* missing containers created, and replaced one higher.
C26_ReplaceCreatesContainers ==
  [][\A t \in Tasks :
       ( /\ RuleRound(t)
         /\ Unresolvable(tasks[t], RuleAt(t).key)
         /\ RuleAt(t).action = "replace" ) =>
           /\ getByPath(tasks'[t].heap, tasks'[t].current, RuleAt(t).key) = Replacement
           /\ tasks'[t].replaced = tasks[t].replaced + 1]_vars

\* The array a path's last segment indexes, when its parent is one.
ParentArray(task, key) ==
  getByPath(task.heap, task.current, SubSeq(key, 1, Len(key) - 1))

\* C27: redact() on an array index. For a rule whose callback calls
\* redact() and whose path ends in the index i of an array of length n: if
\* i < n the array loses exactly element i, the later elements moving down
\* one place, and redacted grows by one; if i is out of range nothing
\* changes and nothing is counted.  redact() of an absent key of an object
\* changes nothing and counts nothing either.
C27_RedactArrayIndex ==
  [][\A t \in Tasks :
       ( /\ RuleRound(t)
         /\ RuleAt(t).action = "redact"
         /\ ~Unresolvable(tasks[t], RuleAt(t).key) ) =>
           LET key == RuleAt(t).key
               parent == ParentArray(tasks[t], key)
               last == key[Len(key)]
           IN IF isArray(tasks[t].heap, parent)
                THEN LET old == tasks[t].heap[parent.x].items
                         new == tasks'[t].heap[parent.x].items
                         i == toArrayIndex(last)
                     IN IF i # NoIndex /\ i < Len(old)
                          THEN /\ Len(new) = Len(old) - 1
                               /\ \A j \in 1..Len(new) :
                                    new[j] = IF j <= i THEN old[j] ELSE old[j + 1]
                               /\ tasks'[t].redacted = tasks[t].redacted + 1
                          ELSE /\ tasks'[t].heap = tasks[t].heap
                               /\ tasks'[t].redacted = tasks[t].redacted
                ELSE last \notin DOMAIN tasks[t].heap[parent.x].props =>
                       /\ tasks'[t].heap = tasks[t].heap
                       /\ tasks'[t].redacted = tasks[t].redacted]_vars

\* C27's case: a run has returned whose rule redacted index 1 of an array
\* of three elements; the first and the third are left, in that order.
C27_Witness ==
  \E t \in Tasks :
    /\ tasks[t].op = "runSerializers"
    /\ tasks[t].pc = "done"
    /\ Len(config.serializers) = 1
    /\ config.serializers[1].key = <<"metadata", "tokens", "1">>
    /\ config.serializers[1].action = "redact"
    /\ Len(tasks[t].before[6].items) = 3
    /\ LET tokens == getByPath(tasks[t].heap, tasks[t].current,
                               <<"metadata", "tokens">>)
       IN tasks[t].heap[tokens.x].items =
            <<tasks[t].before[6].items[1], tasks[t].before[6].items[3]>>
    /\ tasks[t].redacted = 1

\* C28: serializer failure isolation. runSerializers never throws; when a
\* rule throws or rejects, failed grows by one and errors by one entry
\* carrying the rule's key, the record is exactly as it was after the
\* previous rule (what the failing rule did through redact() or replace()
\* before it threw does not persist), and the run goes on to the rules
\* after it.
C28_SerializerFailureIsolation ==
  [][\A t \in Tasks :
       ( /\ RuleRound(t)
         /\ RuleAt(t).throws
         /\ ~Unresolvable(tasks[t], RuleAt(t).key) ) =>
           /\ tasks'[t].status # "rejected"
           /\ tasks'[t].failed = tasks[t].failed + 1
           /\ tasks'[t].results =
                Append(tasks[t].results, [key |-> RuleAt(t).key, error |-> "boom"])
           /\ tasks'[t].heap = tasks[t].heap
           /\ tasks'[t].current = tasks[t].current
           /\ tasks'[t].cursor = tasks[t].cursor + 1]_vars

\* C29: runWithContext restores the prior scope, in both propagation modes.
\* Once the callback of a call has finished, returning or throwing,
\* getContext at the caller's level returns what it returned just before
\* the call, whatever the callback did inside the scope.
C29_ScopeRestored ==
  \A t \in Tasks :
    tasks[t].op = "runWithContext" /\ tasks[t].pc = "done" =>
      readActiveContext(context, context.store) = tasks[t].prior

\* C30: scope isolation under async propagation. With propagation on, a
\* callback's getContext returns its own scope at every point, before and
\* after each await: the context its call was given, with its own patch
\* once it has called setContext (as long as it has not reset the context),
\* whatever other calls do meanwhile.
C30_ScopeIsolation ==
  \A t \in Tasks :
    tasks[t].op = "runWithContext" /\ context.propagateAsync =>
      \A i \in 1..Len(tasks[t].seen) :
        ~tasks[t].seen[i].reset =>
          tasks[t].seen[i].value =
            IF tasks[t].seen[i].patched
              THEN PatchOf(t) @@ tasks[t].scope
              ELSE tasks[t].scope

\* C30's case: with propagation on, two calls with distinct contexts are in
\* progress, both have set a patch and yielded; one is still waiting while
\* the other has resumed after its await and looked at its context.
C30_Witness ==
  /\ context.propagateAsync
  /\ \E t, u \in Tasks :
       /\ t # u
       /\ tasks[t].op = "runWithContext" /\ tasks[u].op = "runWithContext"
       /\ tasks[t].scope # tasks[u].scope
       /\ tasks[t].pc = "ctx_await" /\ tasks[t].patched /\ ~tasks[t].wasReset
       /\ tasks[u].hops >= 1 /\ Len(tasks[u].seen) >= 4
       /\ tasks[u].patched /\ ~tasks[u].wasReset

\* C31: synchronous-only propagation. With propagateAsync = false, the
\* callback of runWithContext(context, fn) gets `context` from getContext
\* in its synchronous part, and the call leaves the ambient context as the
\* caller had it as soon as the callback yields; the callback resumed after
\* an await gets the ambient context current at that time (the caller's
\* previous one when nothing changed it meanwhile), and after its first
\* await not the scope it was suspended in.
C31_SynchronousOnly ==
  [][\A t \in Tasks :
       /\ ~context.propagateAsync
       /\ tasks'[t] # tasks[t]
       /\ tasks'[t].op = "runWithContext"
       => IF tasks[t].op = "runWithContext" /\ tasks[t].pc = "ctx_await"
            THEN LET first == tasks'[t].seen[Len(tasks[t].seen) + 1].value
                 IN /\ first = context.fallbackContext
                    /\ tasks[t].hops = 1 /\ ~tasks[t].wasReset =>
                         first # tasks[t].seen[Len(tasks[t].seen)].value
            ELSE /\ tasks'[t].seen[1].value = tasks'[t].scope
                 /\ tasks'[t].prior = context.fallbackContext
                 /\ context'.fallbackContext = tasks'[t].prior]_vars

\* C31's case: without propagation, a callback that set a patch in its
\* synchronous part has resumed after its await and got the caller's
\* previous context, which is not the context of its scope.
C31_Witness ==
  /\ ~context.propagateAsync
  /\ \E t \in Tasks :
       /\ tasks[t].op = "runWithContext"
       /\ tasks[t].hops >= 1 /\ Len(tasks[t].seen) >= 4
       /\ tasks[t].seen[1].value = tasks[t].scope
       /\ tasks[t].seen[2].value = PatchOf(t) @@ tasks[t].scope
       /\ tasks[t].seen[3].value = tasks[t].prior
       /\ tasks[t].prior # tasks[t].scope

\* C32: context configure/reset round trip. Right after configure with the
\* initial context I, in either mode and whatever setContext calls and
\* mode came before, getContext at the top level returns I; and
\* resetContext at the top level makes getContext return the initial
\* context of the last configure, whatever setContext calls came between.
C32_ConfigureResetRoundTrip ==
  [][/\ \A initial \in ConfiguredContexts, propagate \in BOOLEAN, kept \in BOOLEAN :
          Configure(initial, propagate, kept) =>
            readActiveContext(context', context'.store) = initial
     /\ TopLevelContext("reset", PatchOf(0)) =>
          readActiveContext(context', context'.store) = context.initialContext]_vars

\* C36: the connector's level is the minimum level to process. A log call
\* whose level ranks below the level the connector is configured with at
\* that moment (by construction, setLevel or updateConfig) invokes no
\* transport's publish.
C36_ConnectorLevelGates ==
  [][\A t \in Tasks :
       /\ LogStartsFanout(t)
       /\ ~shouldLog(config.level, tasks'[t].record.level)
       => tasks'[t].invoked = <<>>]_vars

\* C33: updateConfig is all-or-nothing on invalid input. Called on a running
\* connector with an input that makes the merged configuration invalid
\* (an unknown level, a transport without a name or without config, a
\* malformed plugin, serializer or context), updateConfig throws
\* InvalidConnectorConfigError and leaves the configuration, the level, the
\* context, the registry and the calls in flight as they were, starting no
\* registration. A register call with an invalid registration likewise
\* rejects without its factory being invoked and leaves the registry as it
\* was.
C33_InvalidConfigChangesNothing ==
  [][/\ \A next \in InvalidInputs :
          (state = "running" /\ UpdateConfig(next)) =>
            /\ lastResult' = "InvalidConnectorConfigError"
            /\ config' = config /\ context' = context /\ state' = state
            /\ transports' = transports /\ lcs' = lcs /\ failures' = failures
            /\ tasks' = tasks
     /\ \A t \in Tasks :
          ( /\ tasks'[t] # tasks[t]
            /\ tasks'[t].op = "register"
            /\ tasks[t].pc = "done"
            /\ tasks'[t].name = "" \/ tasks'[t].level \notin Thresholds ) =>
            /\ tasks'[t].pc = "done" /\ tasks'[t].status = "rejected"
            /\ tasks'[t].lc = 0
            /\ transports' = transports /\ lcs' = lcs
            /\ config' = config]_vars

\* C33's case: on a running connector with a transport registered, the
\* last call, an updateConfig, has thrown InvalidConnectorConfigError.
C33_Witness ==
  /\ state = "running"
  /\ lastResult = "InvalidConnectorConfigError"
  /\ transports # <<>>
  /\ config.transports # <<>>

\* A step of the background registration a call of updateConfig or
\* createConnector started in slot t.
ConfiguredStep(t) ==
  /\ tasks[t].via = "configured"
  /\ RegisterFactoryDone(t) \/ RegisterShutdownDone(t)

\* The lifecycle l was registered through registerTransport and is the
\* registry's entry for its name.
DynamicEntry(l) ==
  /\ lcs[l].via = "connector"
  /\ MapGet(transports, lcs[l].name) = l

\* C34: updateConfig does not disturb dynamically registered transports. No
\* step of the registration an updateConfig call started shuts down or
\* replaces the lifecycle of a transport that was registered through
\* registerTransport and is not named in the list of transports the call
\* was given: the registry keeps the entry with the same lifecycle.
C34_UpdateConfigKeepsDynamic ==
  [][\A t \in Tasks : \A l \in 1..Len(lcs) :
       ( /\ ConfiguredStep(t)
         /\ DynamicEntry(l)
         /\ lcs[l].name \notin tasks[t].passed ) =>
           /\ lcs'[l].shutdowns = lcs[l].shutdowns
           /\ MapGet(transports', lcs[l].name) = l]_vars

\* The factory of the declared transport the background registration in
\* slot t is waiting for throws or rejects.
ConfiguredFactoryFails(t) ==
  /\ tasks[t].via = "configured"
  /\ tasks[t].pc = "reg_factory"
  /\ RegisterFactoryDone(t)
  /\ lcs' = lcs

\* C35: a failing factory is skipped, not fatal. When the factory of a
\* declared transport throws or rejects during the registration started by
\* createConnector or updateConfig, nothing is thrown to the application, a
\* warning naming the transport is logged, the registry has no entry of
\* that name, and the registration goes on with the next declared transport
\* that has a factory, whose lifecycle is registered when its factory
\* succeeds.
C35_FailingFactorySkipped ==
  [][\A t \in Tasks :
       /\ ConfiguredFactoryFails(t) =>
            /\ state' = state /\ lastResult' = lastResult
            /\ tasks'[t].warned = Append(tasks[t].warned, tasks[t].name)
            /\ MapIndex(transports', tasks[t].name) = 0
            /\ IF tasks[t].rest = <<>>
                 THEN tasks'[t].pc = "done" /\ tasks'[t].status = "resolved"
                 ELSE /\ tasks'[t].pc = "reg_factory"
                      /\ tasks'[t].name = Head(tasks[t].rest)
       /\ ( /\ tasks[t].via = "configured"
            /\ tasks[t].pc = "reg_factory"
            /\ RegisterFactoryDone(t)
            /\ lcs' # lcs
            /\ tasks'[t].pc # "reg_shutdown" ) =>
              MapGet(transports', tasks[t].name) = Len(lcs')]_vars

\* C38: no live transport survives shutdown. Once the connector is stopped
\* and every call that was in flight has settled, the registry is empty
\* and every lifecycle a factory has created and that can shut down has had
\* its shutdown invoked, also the lifecycles of registrations that were in
\* flight when shutdown was called.
C38_NothingSurvivesShutdown ==
  (state = "stopped" /\ Quiescent) =>
    /\ transports = <<>>
    /\ \A l \in 1..Len(lcs) : lcs[l].caps.shutdown => lcs[l].shutdowns > 0

\* The fan-out in slot t invokes a transport's publish in this step.
PublishInvoked(t) ==
  /\ tasks'[t].op = "publish"
  /\ tasks'[t].pc = "pub_await"
  /\ \/ tasks[t].pc # "pub_await"
     \/ Len(tasks'[t].invoked) > Len(tasks[t].invoked)

\* C37: no publish after the shutdown of a lifecycle. Whatever the
\* interleaving of log calls, registrations that replace an entry and
\* shutdown, a fan-out never invokes publish on a lifecycle whose shutdown
\* has been invoked.
C37_NoPublishAfterShutdown ==
  [][\A t \in Tasks :
       PublishInvoked(t) => lcs[tasks'[t].lc].shutdowns = 0]_vars


\* The connector's flush call in slot t resolves in this step.
FlushResolves(t) ==
  /\ tasks[t].op = "flush"
  /\ tasks[t].via = "connector"
  /\ tasks[t].status = "pending"
  /\ tasks'[t].op = "flush"
  /\ tasks'[t].status = "resolved"

\* C39: when connector.flush() resolves, the fan-out of every record logged
\* before flush was called has completed: no publish call started by a log
\* call is still in its loop.
C39_FlushCoversLogged ==
  [][\A t \in Tasks : FlushResolves(t) =>
       \A u \in Tasks : tasks'[u].op = "publish" => tasks'[u].pc = "done"]_vars

\* C40: an updateConfig call that does not supply the context field leaves
\* the active context as it was: getContext() returns after the call what
\* it returned before it, patches applied with setContext included.
C40_UpdateConfigKeepsContext ==
  [][\A next \in UpdateInputs : UpdateConfig(next) => context' = context]_vars

====
